---- MODULE Spec2Model ----
(***************************************************************************)
(* The Hive (streamlit_app.py): the relational store, the family scoping   *)
(* of its queries, soft delete, the reaction toggle, the wishlist claim    *)
(* workflow and the chat "last seen" cursor.                               *)
(*                                                                         *)
(* db holds the tables, each a set of rows (records).  One script run of   *)
(* the app is one request: it reads FAMILY and DISPLAY_NAME, queries the   *)
(* store and, when a button of that run was pressed, executes the          *)
(* statement behind the button.  Several specifications share the          *)
(* variables; each one drives one part of the app and leaves the rest of   *)
(* the state alone.                                                        *)
(***************************************************************************)
EXTENDS Integers, FiniteSets, Sequences, TLC

VARIABLES
    db,             \* the store: table name -> set of rows
    seq,            \* sqlite_sequence: last AUTOINCREMENT id handed out, per table
    ADMIN_KEY,      \* the configured admin reset secret, NULL when none is set
    pc,             \* per viewer session: position of its script run (lists tab)
    snap,           \* per viewer session: the rows its run has read
    session_state,  \* chat viewer: st.session_state, the last_seen_chat_* keys
    new_count,      \* chat viewer: new_count of the latest render of the room
    counted,        \* history: per chat message id, in how many renders it was counted as new
    query_params,   \* st.query_params of the session: the user / family of its URL
    uploads,        \* the files of UPLOAD_DIR
    MAGIC_OK,       \* whether python-magic was importable when the app started
    schema          \* hive.db's tables with their columns, and its indexes

vars == <<db, seq, ADMIN_KEY, pc, snap, session_state, new_count, counted, query_params, uploads, MAGIC_OK, schema>>

sessionVars == <<pc, snap, session_state, new_count, counted, query_params>>

(***************************************************************************)
(* Bounds and input sets                                                   *)
(***************************************************************************)
\* Rows ever inserted, over all tables, in a run of Spec / SpecOps.
MaxRows == 2
\* Rows ever inserted into notes and reactions in a run of SpecCork.
MaxCorkRows == 3
\* Rows ever inserted into lists and list_items in a run of SpecWish.
MaxWishRows == 2
\* Rows ever inserted into chat_messages in a run of SpecChat.
MaxChatRows == 3
\* The history counter of renders that counted a message stops at this value.
MaxCounted == 2
\* Rows ever inserted into events in a run of SpecCal.
MaxCalRows == 1
\* Rows ever inserted into notes in a run of SpecNotes.
MaxNoteRows == 3
\* Rows of one page of the corkboard and of the feed.
PAGE_SIZE == 25

NULL == "NULL"
Families == {"public", "smith"}
Users == {"ann", "bob"}
\* The viewer sessions of the lists tab, by display name; all act in one family.
Viewers == {"ann", "bob", "cat"}
WishFamily == "smith"
ListTypes == {"normal", "wishlist"}
\* The viewer session of the chat tab.
ChatViewer == "ann"
ChatFamily == "smith"
Kinds == {"claim", "unclaim", "purchase"}
Rooms == {"general", "plans"}
Times == {"t1", "t2"}
Texts == {"", "x"}
Titles == {"e", "f"}
EMOJI_CHOICES == {"thumbsup", "heart", "joy", "thinking", "check"}
Passwords == {"", "hunter2", "wrong"}
Confirmations == {"RESET", " RESET ", "reset"}

Tables == {"notes", "comments", "reactions", "lists", "list_items", "documents", "events",
           "event_rsvps", "albums", "posts", "post_media", "post_likes", "post_comments",
           "chat_messages", "user_profiles", "app_settings"}

EmptyDb == [t \in Tables |-> {}]

\* The AUTOINCREMENT counters of the tables and the count of uuid4 file names handed out.
Counters == Tables \cup {"uuid"}

\* AUTOINCREMENT: the next id of a table; an id is never handed out twice.
NextId(t) == seq[t] + 1

RowsEver == seq["notes"] + seq["reactions"] + seq["lists"] + seq["list_items"]
            + seq["documents"] + seq["events"] + seq["albums"] + seq["posts"]
            + seq["chat_messages"]

Ids(rows) == {r.id : r \in rows}

\* str.strip() on the confirmation inputs enumerated above.
Strip(txt) == IF txt = " RESET " THEN "RESET" ELSE txt

(***************************************************************************)
(* Family-scoped listing queries                                           *)
(***************************************************************************)
\* Mutant of NotesListing: the family filter is missing from the query.
NotesListingAnyFamily(FAMILY) == {r \in db["notes"] : r.deleted_at = NULL}

NotesListing(FAMILY) == {r \in db["notes"] : r.family = FAMILY /\ r.deleted_at = NULL}

ListsListing(FAMILY) == {r \in db["lists"] : r.family = FAMILY /\ r.deleted_at = NULL}

DocsListing(FAMILY) == {r \in db["documents"] : r.family = FAMILY /\ r.deleted_at = NULL}

EventsListing(FAMILY) == {r \in db["events"] : r.family = FAMILY}

AlbumsListing(FAMILY) == {r \in db["albums"] : r.family = FAMILY}

PostsListing(FAMILY) == {r \in db["posts"] : r.family = FAMILY}

ChatListing(FAMILY, room) ==
    {m \in db["chat_messages"] : m.family = FAMILY /\ m.room = room}

\* existing_rooms: the distinct rooms of the family, plus default_room when absent.
ExistingRooms(FAMILY) ==
    {m.room : m \in {x \in db["chat_messages"] : x.family = FAMILY}} \cup {"general"}

\* ORDER BY id DESC LIMIT 10 of the quick-delete query.
MINE_LIMIT == 10

\* Mutant of MineListing: the query has no LIMIT.
MineListingUnlimited(FAMILY, room, DISPLAY_NAME) ==
    {m \in ChatListing(FAMILY, room) : m.author = DISPLAY_NAME}

\* mine: the viewer's own messages of the room, the MINE_LIMIT newest of them.
MineListing(FAMILY, room, DISPLAY_NAME) ==
    LET own == {m \in ChatListing(FAMILY, room) : m.author = DISPLAY_NAME}
    IN  {m \in own : Cardinality({x \in own : x.id > m.id}) < MINE_LIMIT}

(***************************************************************************)
(* Statements: the table after the statement.  Each row carries `origin`,  *)
(* a history field the program does not store: the family the inserting    *)
(* run was acting as.                                                      *)
(***************************************************************************)
Max(S) == CHOOSE x \in S : \A y \in S : y <= x

\* Mutant of NextOrd: the MAX is taken over the alive notes of every family.
NextOrdAnyFamily(FAMILY) ==
    Max({r.order_index : r \in {n \in db["notes"] : n.deleted_at = NULL}} \cup {0}) + 1

\* next_ord: SELECT COALESCE(MAX(order_index),0) FROM notes WHERE family=? AND
\* deleted_at IS NULL, plus one.
NextOrd(FAMILY) ==
    Max({r.order_index : r \in NotesListing(FAMILY)} \cup {0}) + 1

NoteRow(FAMILY) ==
    [id |-> NextId("notes"), family |-> FAMILY, origin |-> FAMILY, deleted_at |-> NULL,
     order_index |-> NextOrd(FAMILY)]

\* UPDATE notes SET deleted_at=? WHERE id=? AND family=?
SoftDeleteNote(FAMILY, id, now) ==
    {IF r.id = id /\ r.family = FAMILY THEN [r EXCEPT !.deleted_at = now] ELSE r
     : r \in db["notes"]}

ListRow(FAMILY, DISPLAY_NAME, list_type) ==
    [id |-> NextId("lists"), family |-> FAMILY, origin |-> FAMILY, type |-> list_type,
     created_by |-> DISPLAY_NAME, deleted_at |-> NULL]

\* UPDATE lists SET deleted_at=? WHERE id=?
SoftDeleteList(FAMILY, id, now) ==
    {IF r.id = id THEN [r EXCEPT !.deleted_at = now] ELSE r : r \in db["lists"]}

DocRow(FAMILY) ==
    [id |-> NextId("documents"), family |-> FAMILY, origin |-> FAMILY, content |-> "",
     deleted_at |-> NULL]

\* UPDATE documents SET content=? WHERE id=?
SaveDoc(FAMILY, id, new) ==
    {IF r.id = id THEN [r EXCEPT !.content = new] ELSE r : r \in db["documents"]}

\* Mutant of SoftDeleteDoc: the row is removed instead of marked.
HardDeleteDoc(FAMILY, id, now) == {r \in db["documents"] : r.id # id}

\* UPDATE documents SET deleted_at=? WHERE id=?
SoftDeleteDoc(FAMILY, id, now) ==
    {IF r.id = id THEN [r EXCEPT !.deleted_at = now] ELSE r : r \in db["documents"]}

EventRow(FAMILY, title) ==
    [id |-> NextId("events"), family |-> FAMILY, origin |-> FAMILY, title |-> title]

\* UPDATE events SET title=?, ... WHERE id=? AND family=?
UpdateEvent(FAMILY, id, title) ==
    {IF r.id = id /\ r.family = FAMILY THEN [r EXCEPT !.title = title] ELSE r
     : r \in db["events"]}

\* DELETE FROM events WHERE id=? AND family=?
DeleteEvent(FAMILY, id) ==
    {r \in db["events"] : ~(r.id = id /\ r.family = FAMILY)}

AlbumRow(FAMILY) ==
    [id |-> NextId("albums"), family |-> FAMILY, origin |-> FAMILY]

PostRow(FAMILY, DISPLAY_NAME) ==
    [id |-> NextId("posts"), family |-> FAMILY, origin |-> FAMILY, author |-> DISPLAY_NAME]

\* DELETE FROM posts WHERE id=?
DeletePost(FAMILY, id) ==
    {r \in db["posts"] : r.id # id}

ChatRow(FAMILY, room, author) ==
    [id |-> NextId("chat_messages"), family |-> FAMILY, origin |-> FAMILY, room |-> room,
     author |-> author]

\* DELETE FROM chat_messages WHERE id=? AND family=? AND room=? AND author=?
DeleteChat(FAMILY, room, DISPLAY_NAME, id) ==
    {m \in db["chat_messages"] :
        ~(m.id = id /\ m.family = FAMILY /\ m.room = room /\ m.author = DISPLAY_NAME)}

\* Mutant of UniqueConflict: the uniq_rx index is missing, no insert is refused.
NoUniqueConflict(note_id, emoji, author) == FALSE

\* CREATE UNIQUE INDEX uniq_rx ON reactions(note_id, emoji, author): the insert of a
\* second row with the same three values is refused.
UniqueConflict(note_id, emoji, author) ==
    \E r \in db["reactions"] : r.note_id = note_id /\ r.emoji = emoji /\ r.author = author

\* FOREIGN KEY(note_id) REFERENCES notes(id), with PRAGMA foreign_keys=ON.
ForeignKeyOk(note_id) == note_id \in Ids(db["notes"])

\* sqlite3.IntegrityError on INSERT INTO reactions(note_id, emoji, author)
IntegrityError(note_id, emoji, author) ==
    UniqueConflict(note_id, emoji, author) \/ ~ForeignKeyOk(note_id)

ReactionRow(note_id, emoji, author) ==
    [id |-> NextId("reactions"), note_id |-> note_id, emoji |-> emoji, author |-> author]

\* DELETE FROM reactions WHERE note_id=? AND emoji=? AND author=?
DeleteReaction(note_id, emoji, author) ==
    {r \in db["reactions"] :
        ~(r.note_id = note_id /\ r.emoji = emoji /\ r.author = author)}

\* DELETE FROM reactions WHERE note_id=?
ClearReactions(note_id) == {r \in db["reactions"] : r.note_id # note_id}

\* INSERT INTO <table>: the row is added and the table's AUTOINCREMENT counter moves on.
Insert(t, row) ==
    /\ db' = [db EXCEPT ![t] = @ \cup {row}]
    /\ seq' = [seq EXCEPT ![t] = @ + 1]

\* An UPDATE or DELETE on one table.
Write(t, rows) ==
    /\ db' = [db EXCEPT ![t] = rows]
    /\ UNCHANGED seq

(***************************************************************************)
(* The schema: init_schema and _init_addon_schema, statement by statement. *)
(* A store is the columns of each table (none when the table is missing),  *)
(* the names of its indexes and its rows; a row has one field per column.  *)
(***************************************************************************)
\* CREATE TABLE IF NOT EXISTS <table>(<columns>)
Created ==
    [t \in Tables |->
        CASE t = "notes" -> {"id", "content", "color", "x", "y", "z", "type", "assignee",
                             "due_at", "tags", "order_index", "linked_event_id", "family"}
          [] t = "lists" -> {"id", "title", "family"}
          [] t = "list_items" -> {"id", "list_id", "text", "done"}
          [] t = "documents" -> {"id", "title", "content", "family"}
          [] t = "comments" -> {"id", "note_id", "author", "text", "created_at"}
          [] t = "reactions" -> {"id", "note_id", "emoji", "author", "created_at"}
          [] t = "events" -> {"id", "title", "start_at", "end_at", "assignees", "family"}
          [] t = "albums" -> {"id", "name", "family", "created_at"}
          [] t = "posts" -> {"id", "family", "album_id", "author", "caption", "created_at"}
          [] t = "post_media" -> {"id", "post_id", "path", "thumb_path", "mime", "media_type"}
          [] t = "post_likes" -> {"post_id", "author"}
          [] t = "post_comments" -> {"id", "post_id", "author", "text", "created_at"}
          [] t = "chat_messages" -> {"id", "family", "room", "author", "text", "created_at"}
          [] t = "user_profiles" -> {"id", "family", "username", "first_name", "last_name",
                                     "avatar_path", "created_at"}
          [] t = "app_settings" -> {"family", "key", "value"}
          [] t = "event_rsvps" -> {"event_id", "username", "status", "responded_at"}]

\* models.py: the tables SQLModel.metadata.create_all makes.
LegacyTables == {"notes", "lists", "list_items", "documents"}

LegacyColumns ==
    [t \in LegacyTables |->
        CASE t = "notes" -> {"id", "content", "color"}
          [] t = "lists" -> {"id", "title"}
          [] t = "list_items" -> {"id", "list_id", "text", "done"}
          [] t = "documents" -> {"id", "title", "content"}]

CreateOrder ==
    <<"notes", "lists", "list_items", "documents", "comments", "reactions", "events",
      "albums", "posts", "post_media", "post_likes", "post_comments", "chat_messages">>

AddonOrder == <<"user_profiles", "app_settings", "event_rsvps">>

\* add_col(table, col, typ, default); integers are written as SQLite prints them.
Migrations ==
    <<[t |-> "notes", col |-> "deleted_at", default |-> NULL],
      [t |-> "lists", col |-> "deleted_at", default |-> NULL],
      [t |-> "documents", col |-> "deleted_at", default |-> NULL],
      [t |-> "post_media", col |-> "thumb_path", default |-> NULL],
      [t |-> "post_media", col |-> "media_type", default |-> "image"],
      [t |-> "events", col |-> "all_day", default |-> "0"],
      [t |-> "lists", col |-> "type", default |-> "normal"],
      [t |-> "lists", col |-> "created_by", default |-> NULL],
      [t |-> "list_items", col |-> "claimed_by", default |-> NULL],
      [t |-> "list_items", col |-> "url", default |-> NULL],
      [t |-> "list_items", col |-> "purchased_by", default |-> NULL],
      [t |-> "list_items", col |-> "image_url", default |-> NULL]>>

\* CREATE [UNIQUE] INDEX IF NOT EXISTS <name> ON <table>(<columns>)
Indices ==
    <<[name |-> "uniq_rx", t |-> "reactions", on |-> {"note_id", "emoji", "author"}],
      [name |-> "idx_notes_family", t |-> "notes", on |-> {"family"}],
      [name |-> "idx_notes_order", t |-> "notes", on |-> {"order_index", "id"}],
      [name |-> "idx_comments_note", t |-> "comments", on |-> {"note_id"}],
      [name |-> "idx_reactions_note", t |-> "reactions", on |-> {"note_id"}],
      [name |-> "idx_events_family_start", t |-> "events", on |-> {"family", "start_at"}],
      [name |-> "idx_lists_family", t |-> "lists", on |-> {"family"}],
      [name |-> "idx_docs_family", t |-> "documents", on |-> {"family"}],
      [name |-> "idx_posts_family", t |-> "posts", on |-> {"family"}],
      [name |-> "idx_chat_family_room_time", t |-> "chat_messages",
       on |-> {"family", "room", "created_at"}]>>

\* UPDATE <table> SET <col>=<value> WHERE <col> IS NULL
Backfills ==
    <<[t |-> "list_items", col |-> "done", value |-> "0"],
      [t |-> "documents", col |-> "content", value |-> ""],
      [t |-> "events", col |-> "all_day", value |-> "0"]>>

\* The columns the application's statements name.
AppColumns(t) ==
    Created[t] \cup {Migrations[i].col : i \in {j \in DOMAIN Migrations : Migrations[j].t = t}}

NoStore == [cols |-> [t \in Tables |-> {}], idx |-> {}, rows |-> EmptyDb, error |-> FALSE]

\* CREATE TABLE IF NOT EXISTS: an existing table is left as it is.
CreateTable(st, t) ==
    IF st.cols[t] # {} THEN st ELSE [st EXCEPT !.cols[t] = Created[t]]

RECURSIVE CreateTables(_, _)
CreateTables(st, order) ==
    IF order = <<>> THEN st ELSE CreateTables(CreateTable(st, Head(order)), Tail(order))

\* ALTER TABLE ADD COLUMN gives every existing row the column's default.
WithColumn(r, col, default) ==
    [c \in DOMAIN r \cup {col} |-> IF c \in DOMAIN r THEN r[c] ELSE default]

\* add_col: has_col is false for a missing column, then ALTER TABLE ... ADD COLUMN.
AddCol(st, m) ==
    IF m.col \in st.cols[m.t] THEN st
    ELSE [st EXCEPT !.cols[m.t] = @ \cup {m.col},
                    !.rows[m.t] = {WithColumn(r, m.col, m.default) : r \in @}]

\* CREATE INDEX IF NOT EXISTS: "no such column" when the table lacks a named column.
CreateIndex(st, i) ==
    IF i.name \in st.idx THEN st
    ELSE IF i.on \subseteq st.cols[i.t] THEN [st EXCEPT !.idx = @ \cup {i.name}]
    ELSE [st EXCEPT !.error = TRUE]

Backfill(st, b) ==
    IF b.col \notin st.cols[b.t] THEN [st EXCEPT !.error = TRUE]
    ELSE [st EXCEPT !.rows[b.t] =
              {IF r[b.col] = NULL THEN [r EXCEPT ![b.col] = b.value] ELSE r : r \in @}]

\* The statements of a list in order; the first one that raises ends the run.
RECURSIVE Each(_, _, _)
Each(Op(_, _), st, args) ==
    IF args = <<>> \/ st.error THEN st ELSE Each(Op, Op(st, Head(args)), Tail(args))

\* init_schema() and then, when it returned, _init_addon_schema().
InitSchema(st) ==
    LET made == CreateTables(st, CreateOrder)
        migrated == Each(AddCol, made, Migrations)
        indexed == Each(CreateIndex, migrated, Indices)
        filled == Each(Backfill, indexed, Backfills)
    IN  IF filled.error THEN filled ELSE CreateTables(filled, AddonOrder)

\* The schema of a store that init_schema made from nothing.
Initialised ==
    LET st == InitSchema(NoStore) IN [cols |-> st.cols, idx |-> st.idx]

\* FOREIGN KEY(<column>) REFERENCES <parent>(id) ON DELETE CASCADE of the child tables.
\* posts.album_id is ON DELETE SET NULL: it removes no row and is left out.
ChildTables ==
    {"comments", "reactions", "list_items", "post_media", "post_likes", "post_comments",
     "event_rsvps"}

ParentOf(t) ==
    CASE t \in {"comments", "reactions"} -> "notes"
      [] t = "list_items" -> "lists"
      [] t \in {"post_media", "post_likes", "post_comments"} -> "posts"
      [] t = "event_rsvps" -> "events"

ForeignKey(t) ==
    CASE t \in {"comments", "reactions"} -> "note_id"
      [] t = "list_items" -> "list_id"
      [] t \in {"post_media", "post_likes", "post_comments"} -> "post_id"
      [] t = "event_rsvps" -> "event_id"

\* Mutant of DeleteFrom: PRAGMA foreign_keys is off, the children stay.
DeleteFromWithoutCascade(d, t, gone) == [d EXCEPT ![t] = @ \ gone]

\* DELETE FROM t WHERE ... with PRAGMA foreign_keys=ON: the rows `gone` leave table t
\* and every child row that references one of them leaves with it.
DeleteFrom(d, t, gone) ==
    [u \in Tables |->
        IF u = t THEN d[u] \ gone
        ELSE IF u \in ChildTables /\ ParentOf(u) = t
             THEN {r \in d[u] : r[ForeignKey(u)] \notin Ids(gone)}
             ELSE d[u]]

\* Mutant of ResetAllowed: the typed confirmation is not compared with RESET.
ResetAllowedUnconfirmed(pwd, txt) ==
    /\ ADMIN_KEY # NULL
    /\ pwd = ADMIN_KEY

\* _factory_reset_ui_secured: the wipe runs only behind the secret and the typed RESET.
ResetAllowed(pwd, txt) ==
    /\ ADMIN_KEY # NULL
    /\ pwd = ADMIN_KEY
    /\ Strip(txt) = "RESET"

\* The DELETE FROM <table> of every table and the unlink of every file of UPLOAD_DIR;
\* sqlite_sequence is left alone.
FactoryReset(pwd, txt) ==
    /\ ResetAllowed(pwd, txt)
    /\ db' = EmptyDb
    /\ uploads' = {}
    /\ UNCHANGED <<seq, ADMIN_KEY, MAGIC_OK, schema>>

(***************************************************************************)
(* Handlers of the entity tabs.  TargetIds is the set of ids a handler can *)
(* be run with: in the app a button exists only for a row of the run's own *)
(* family-scoped listing (Spec); as an operation called with a supplied id *)
(* the statement accepts the id of any row of the table (SpecOps).         *)
(***************************************************************************)
rest == <<ADMIN_KEY, pc, snap, session_state, new_count, counted, query_params, uploads, MAGIC_OK, schema>>

AddNote(FAMILY) ==
    /\ Insert("notes", NoteRow(FAMILY))
    /\ UNCHANGED rest

DeleteNote(FAMILY, id, now) ==
    /\ Write("notes", SoftDeleteNote(FAMILY, id, now))
    /\ UNCHANGED rest

CreateList(FAMILY, DISPLAY_NAME, list_type) ==
    /\ Insert("lists", ListRow(FAMILY, DISPLAY_NAME, list_type))
    /\ UNCHANGED rest

DeleteList(FAMILY, id, now) ==
    /\ Write("lists", SoftDeleteList(FAMILY, id, now))
    /\ UNCHANGED rest

CreateDoc(FAMILY) ==
    /\ Insert("documents", DocRow(FAMILY))
    /\ UNCHANGED rest

SaveDocument(FAMILY, id, new) ==
    /\ Write("documents", SaveDoc(FAMILY, id, new))
    /\ UNCHANGED rest

DeleteDocument(FAMILY, id, now) ==
    /\ Write("documents", SoftDeleteDoc(FAMILY, id, now))
    /\ UNCHANGED rest

CreateEvent(FAMILY, title) ==
    /\ Insert("events", EventRow(FAMILY, title))
    /\ UNCHANGED rest

UpdateEventButton(FAMILY, id, title) ==
    /\ Write("events", UpdateEvent(FAMILY, id, title))
    /\ UNCHANGED rest

DeleteEventButton(FAMILY, id) ==
    /\ db' = DeleteFrom(db, "events", db["events"] \ DeleteEvent(FAMILY, id))
    /\ UNCHANGED seq
    /\ UNCHANGED rest

CreateAlbum(FAMILY) ==
    /\ Insert("albums", AlbumRow(FAMILY))
    /\ UNCHANGED rest

CreatePost(FAMILY, DISPLAY_NAME) ==
    /\ Insert("posts", PostRow(FAMILY, DISPLAY_NAME))
    /\ UNCHANGED rest

DeletePostButton(FAMILY, id) ==
    /\ db' = DeleteFrom(db, "posts", db["posts"] \ DeletePost(FAMILY, id))
    /\ UNCHANGED seq
    /\ UNCHANGED rest

\* Add Room: the first message of a new room is the "system" announcement.
AddRoom(FAMILY, new_room) ==
    /\ Insert("chat_messages", ChatRow(FAMILY, new_room, "system"))
    /\ UNCHANGED rest

SendMessage(FAMILY, room, DISPLAY_NAME) ==
    /\ room \in ExistingRooms(FAMILY)
    /\ Insert("chat_messages", ChatRow(FAMILY, room, DISPLAY_NAME))
    /\ UNCHANGED rest

DeleteMessage(FAMILY, room, DISPLAY_NAME, id) ==
    /\ Write("chat_messages", DeleteChat(FAMILY, room, DISPLAY_NAME, id))
    /\ UNCHANGED rest

WipeEverything ==
    /\ \E pwd \in Passwords, txt \in Confirmations : FactoryReset(pwd, txt)
    /\ UNCHANGED sessionVars

\* The model stops inserting at MaxRows rows.
CanInsert == RowsEver < MaxRows

\* The insert forms: they take no id.
Creates ==
    \/ CanInsert /\ \E f \in Families : AddNote(f)
    \/ CanInsert /\ \E f \in Families, u \in Users : CreateList(f, u, "normal")
    \/ CanInsert /\ \E f \in Families : CreateDoc(f)
    \/ CanInsert /\ \E f \in Families, t \in Titles : CreateEvent(f, t)
    \/ CanInsert /\ \E f \in Families : CreateAlbum(f)
    \/ CanInsert /\ \E f \in Families, u \in Users : CreatePost(f, u)
    \/ CanInsert /\ \E f \in Families, r \in Rooms : AddRoom(f, r)
    \/ CanInsert /\ \E f \in Families, r \in Rooms, u \in Users : SendMessage(f, r, u)

\* The buttons of the rows a run has listed for its own family.
Buttons ==
    \/ \E f \in Families, now \in Times : \E id \in Ids(NotesListing(f)) :
          DeleteNote(f, id, now)
    \/ \E f \in Families, now \in Times : \E id \in Ids(ListsListing(f)) :
          DeleteList(f, id, now)
    \/ \E f \in Families, new \in Texts : \E id \in Ids(DocsListing(f)) :
          SaveDocument(f, id, new)
    \/ \E f \in Families, now \in Times : \E id \in Ids(DocsListing(f)) :
          DeleteDocument(f, id, now)
    \/ \E f \in Families, t \in Titles : \E id \in Ids(EventsListing(f)) :
          UpdateEventButton(f, id, t)
    \/ \E f \in Families : \E id \in Ids(EventsListing(f)) : DeleteEventButton(f, id)
    \/ \E f \in Families : \E id \in Ids(PostsListing(f)) : DeletePostButton(f, id)
    \/ \E f \in Families, u \in Users : \E r \in ExistingRooms(f) :
          \E id \in Ids(MineListing(f, r, u)) : DeleteMessage(f, r, u, id)

\* The same statements run with the id of any row of their table.
Calls ==
    \/ \E f \in Families, now \in Times : \E id \in Ids(db["notes"]) :
          DeleteNote(f, id, now)
    \/ \E f \in Families, now \in Times : \E id \in Ids(db["lists"]) :
          DeleteList(f, id, now)
    \/ \E f \in Families, new \in Texts : \E id \in Ids(db["documents"]) :
          SaveDocument(f, id, new)
    \/ \E f \in Families, now \in Times : \E id \in Ids(db["documents"]) :
          DeleteDocument(f, id, now)
    \/ \E f \in Families, t \in Titles : \E id \in Ids(db["events"]) :
          UpdateEventButton(f, id, t)
    \/ \E f \in Families : \E id \in Ids(db["events"]) : DeleteEventButton(f, id)
    \/ \E f \in Families : \E id \in Ids(db["posts"]) : DeletePostButton(f, id)
    \/ \E f \in Families, u \in Users, r \in Rooms : \E id \in Ids(db["chat_messages"]) :
          DeleteMessage(f, r, u, id)

Init ==
    /\ db = EmptyDb
    /\ seq = [t \in Counters |-> 0]
    /\ ADMIN_KEY \in {NULL, "hunter2"}
    /\ pc = NULL
    /\ snap = NULL
    /\ session_state = NULL
    /\ new_count = 0
    /\ counted = NULL
    /\ query_params = NULL
    /\ uploads = {}
    /\ MAGIC_OK = FALSE
    /\ schema = Initialised

Next == Creates \/ Buttons \/ WipeEverything

Spec == Init /\ [][Next]_vars

NextOps == Creates \/ Calls \/ WipeEverything

SpecOps == Init /\ [][NextOps]_vars

(***************************************************************************)
(* Family scoping                                                          *)
(***************************************************************************)
\* An id-taking statement of the entity tabs, issued while acting as family f.
IssuedAs(f) ==
    \/ \E now \in Times : \E id \in Ids(db["notes"]) : DeleteNote(f, id, now)
    \/ \E now \in Times : \E id \in Ids(db["lists"]) : DeleteList(f, id, now)
    \/ \E new \in Texts : \E id \in Ids(db["documents"]) : SaveDocument(f, id, new)
    \/ \E now \in Times : \E id \in Ids(db["documents"]) : DeleteDocument(f, id, now)
    \/ \E t \in Titles : \E id \in Ids(db["events"]) : UpdateEventButton(f, id, t)
    \/ \E id \in Ids(db["events"]) : DeleteEventButton(f, id)
    \/ \E id \in Ids(db["posts"]) : DeletePostButton(f, id)
    \/ \E u \in Users, r \in Rooms : \E id \in Ids(db["chat_messages"]) :
          DeleteMessage(f, r, u, id)

\* C1: an update or delete issued while acting as family f, whatever id it is
\* given, leaves every row of every other family exactly as it was.
C1_ForeignIdHasNoEffect ==
    [][\A f \in Families :
          IssuedAs(f) => \A t \in Tables : \A r \in db[t] : r.family # f => r \in db'[t]]_vars

\* C2: in every reachable state each family-scoped listing made for family f
\* (notes, lists, documents, events, albums, posts, chat rooms, chat messages)
\* holds only rows that were inserted by a run acting as f.
C2_ListingsHoldOwnFamilyOnly ==
    \A f \in Families :
        /\ \A r \in NotesListing(f) : r.origin = f /\ r.family = f
        /\ \A r \in ListsListing(f) : r.origin = f /\ r.family = f
        /\ \A r \in DocsListing(f) : r.origin = f /\ r.family = f
        /\ \A r \in EventsListing(f) : r.origin = f /\ r.family = f
        /\ \A r \in AlbumsListing(f) : r.origin = f /\ r.family = f
        /\ \A r \in PostsListing(f) : r.origin = f /\ r.family = f
        /\ \A room \in ExistingRooms(f) :
              room = "general" \/ \E m \in db["chat_messages"] : m.origin = f /\ m.room = room
        /\ \A room \in Rooms : \A m \in ChatListing(f, room) : m.origin = f /\ m.family = f

\* Rows of both families are stored and each family's lists listing is non-empty.
C2_Witness ==
    /\ ListsListing("smith") # {}
    /\ ListsListing("public") # {}

(***************************************************************************)
(* Soft delete                                                             *)
(***************************************************************************)
SoftTables == {"notes", "lists", "documents"}

Listing(t, f) ==
    CASE t = "notes" -> NotesListing(f)
      [] t = "lists" -> ListsListing(f)
      [] t = "documents" -> DocsListing(f)

SoftDeleted(t) == {r \in db[t] : r.deleted_at # NULL}

\* C3 as claimed: a soft-deleted note, list or document stays in the store with
\* deleted_at populated over every step, and is in no family's listing afterwards.
C3_SoftDeletedRowStays ==
    [][\A t \in SoftTables : \A r \in SoftDeleted(t) :
          /\ \E r2 \in db'[t] : r2.id = r.id /\ r2.deleted_at # NULL
          /\ \A f \in Families : r.id \notin Ids(Listing(t, f))']_vars

\* C3 amended: a soft-deleted note, list or document is in no family's listing
\* after any step; no step but the factory reset removes a row of these tables
\* (deleting one marks it), and a row that is marked stays marked; the factory
\* reset removes the rows, marked ones included; and the id of a row that is
\* gone is never given to a new row.
C3_SoftDeletedStaysUntilReset ==
    [][\A t \in SoftTables :
          /\ \A r \in SoftDeleted(t) : \A f \in Families : r.id \notin Ids(Listing(t, f))'
          /\ \A r \in db[t] :
                \/ \E r2 \in db'[t] :
                      r2.id = r.id /\ (r.deleted_at # NULL => r2.deleted_at # NULL)
                \/ \E pwd \in Passwords, txt \in Confirmations : FactoryReset(pwd, txt)
          /\ \A id \in 1..seq[t] : id \notin Ids(db[t]) => id \notin Ids(db'[t])]_vars

\* A soft-deleted document is stored next to a live one of the same family.
C3_Witness ==
    \E r \in SoftDeleted("documents") : DocsListing(r.family) # {}

(***************************************************************************)
(* Corkboard: notes and their reactions                                    *)
(***************************************************************************)
\* The emoji button of a listed note: insert, and on IntegrityError delete.
React(FAMILY, DISPLAY_NAME, note_id, emoji) ==
    /\ IF IntegrityError(note_id, emoji, DISPLAY_NAME)
          THEN Write("reactions", DeleteReaction(note_id, emoji, DISPLAY_NAME))
          ELSE Insert("reactions", ReactionRow(note_id, emoji, DISPLAY_NAME))
    /\ UNCHANGED rest

\* "Clear all reactions" of a listed note.
ClearAllReactions(FAMILY, note_id) ==
    /\ Write("reactions", ClearReactions(note_id))
    /\ UNCHANGED rest

CanInsertCork == RowsEver < MaxCorkRows

NextCork ==
    \/ CanInsertCork /\ \E f \in Families : AddNote(f)
    \/ CanInsertCork /\ \E f \in Families, u \in Users, e \in EMOJI_CHOICES :
          \E id \in Ids(NotesListing(f)) : React(f, u, id, e)
    \/ \E f \in Families : \E id \in Ids(NotesListing(f)) : ClearAllReactions(f, id)
    \/ \E f \in Families, now \in Times : \E id \in Ids(NotesListing(f)) :
          DeleteNote(f, id, now)
    \/ WipeEverything

SpecCork == Init /\ [][NextCork]_vars

Reacted(note_id, emoji, author) ==
    {r \in db["reactions"] : r.note_id = note_id /\ r.emoji = emoji /\ r.author = author}

\* C8: pressing the reaction of (note, emoji, author) makes it present when it was
\* absent and absent when it was present, and changes no other reaction; and in
\* every reachable state at most one row exists per (note, emoji, author).
C8_ReactionToggle ==
    /\ [](\A r1, r2 \in db["reactions"] :
            (r1.note_id = r2.note_id /\ r1.emoji = r2.emoji /\ r1.author = r2.author)
                => r1 = r2)
    /\ [][\A f \in Families, u \in Users, e \in EMOJI_CHOICES :
             \A id \in Ids(NotesListing(f)) :
                React(f, u, id, e) =>
                   /\ (Reacted(id, e, u)' = {}) <=> (Reacted(id, e, u) # {})
                   /\ Cardinality(Reacted(id, e, u)') <= 1
                   /\ \A r \in db["reactions"] \cup db'["reactions"] :
                         ~(r.note_id = id /\ r.emoji = e /\ r.author = u)
                            => (r \in db["reactions"] <=> r \in db'["reactions"])]_vars

\* A reaction that was pressed on, off and on again: its row is the second one inserted.
C8_Witness ==
    \E r \in db["reactions"] : r.id = 2 /\ Cardinality(db["reactions"]) = 1

(***************************************************************************)
(* Lists tab: wishlist claim / unclaim / purchase.  A run first fetches    *)
(* the lists of its family and their items and renders status and buttons  *)
(* from these rows (Fetch); the pressed button's UPDATE runs afterwards    *)
(* (Press), so other sessions' statements can fall between the two.        *)
(***************************************************************************)
ItemRow(list_id) ==
    [id |-> NextId("list_items"), list_id |-> list_id, claimed_by |-> NULL,
     purchased_by |-> NULL]

ItemsOf(list_id) == {it \in db["list_items"] : it.list_id = list_id}

\* Mutant of YouAreCreator: the comparison is lost, nobody is treated as the creator.
NobodyIsCreator(DISPLAY_NAME, lst) == FALSE

YouAreCreator(DISPLAY_NAME, lst) == DISPLAY_NAME = lst.created_by

IsWishlist(lst) == lst.type = "wishlist"

\* The caption under a wishlist item.
StatusText(DISPLAY_NAME, lst, it) ==
    IF YouAreCreator(DISPLAY_NAME, lst) THEN <<>>
    ELSE IF it.purchased_by # NULL
         THEN IF it.purchased_by = DISPLAY_NAME THEN <<"Purchased by", "you">>
              ELSE <<"Purchased by", it.purchased_by>>
    ELSE IF it.claimed_by # NULL
         THEN IF it.claimed_by = DISPLAY_NAME THEN <<"Reserved by", "you">>
              ELSE <<"Reserved by", it.claimed_by>>
    ELSE <<>>

\* Mutant of Controls: the Unclaim / Mark Purchased pair is shown on any claimed item.
ControlsForAnyClaimer(DISPLAY_NAME, lst, it) ==
    IF YouAreCreator(DISPLAY_NAME, lst) THEN {}
    ELSE IF it.purchased_by # NULL THEN {}
    ELSE IF it.claimed_by = NULL THEN {"claim"}
    ELSE {"unclaim", "purchase"}

\* The buttons in the right column of a wishlist item.
Controls(DISPLAY_NAME, lst, it) ==
    IF YouAreCreator(DISPLAY_NAME, lst) THEN {}
    ELSE IF it.purchased_by # NULL THEN {}
    ELSE IF it.claimed_by = NULL THEN {"claim"}
    ELSE IF it.claimed_by = DISPLAY_NAME THEN {"unclaim", "purchase"}
    ELSE {}

\* What one run shows of the wishlist items in `its` of the lists in `ls`.
RenderView(DISPLAY_NAME, ls, its) ==
    {[list_id |-> x[1].id, id |-> x[2].id,
      status |-> StatusText(DISPLAY_NAME, x[1], x[2]),
      controls |-> Controls(DISPLAY_NAME, x[1], x[2])]
       : x \in {y \in ls \X its : IsWishlist(y[1]) /\ y[2].list_id = y[1].id}}

\* The screen a run of viewer v would render from the store as it is now.
FreshView(v) == RenderView(v, ListsListing(WishFamily), db["list_items"])

\* UPDATE list_items SET claimed_by=?, purchased_by=NULL WHERE id=?
ClaimItem(id, DISPLAY_NAME) ==
    {IF r.id = id THEN [r EXCEPT !.claimed_by = DISPLAY_NAME, !.purchased_by = NULL] ELSE r
     : r \in db["list_items"]}

\* UPDATE list_items SET claimed_by=NULL, purchased_by=NULL WHERE id=?
UnclaimItem(id, DISPLAY_NAME) ==
    {IF r.id = id THEN [r EXCEPT !.claimed_by = NULL, !.purchased_by = NULL] ELSE r
     : r \in db["list_items"]}

\* UPDATE list_items SET purchased_by=? WHERE id=?
PurchaseItem(id, DISPLAY_NAME) ==
    {IF r.id = id THEN [r EXCEPT !.purchased_by = DISPLAY_NAME] ELSE r
     : r \in db["list_items"]}

\* DELETE FROM list_items WHERE id=?
DeleteItem(id) == {r \in db["list_items"] : r.id # id}

wishRest == <<ADMIN_KEY, session_state, new_count, counted, query_params, uploads, MAGIC_OK, schema>>

CreateListBy(v, list_type) ==
    /\ Insert("lists", ListRow(WishFamily, v, list_type))
    /\ UNCHANGED <<pc, snap>> /\ UNCHANGED wishRest

\* The add_item form of a listed list.
AddItem(v, list_id) ==
    /\ Insert("list_items", ItemRow(list_id))
    /\ UNCHANGED <<pc, snap>> /\ UNCHANGED wishRest

\* The run queries the lists and their items and renders them.
Fetch(v) ==
    /\ pc[v] = "idle"
    /\ snap' = [snap EXCEPT ![v] = FreshView(v)]
    /\ pc' = [pc EXCEPT ![v] = "rendered"]
    /\ UNCHANGED <<db, seq>> /\ UNCHANGED wishRest

\* A button of this run exists only if the run rendered it.
Shown(v, kind, id) == \E e \in snap[v] : e.id = id /\ kind \in e.controls

\* The pressed claim / unclaim / purchase button of item id; a press of a button the
\* run did not render does nothing.
Press(v, kind, id) ==
    /\ pc[v] = "rendered"
    /\ IF Shown(v, kind, id)
          THEN CASE kind = "claim" -> Write("list_items", ClaimItem(id, v))
                 [] kind = "unclaim" -> Write("list_items", UnclaimItem(id, v))
                 [] kind = "purchase" -> Write("list_items", PurchaseItem(id, v))
          ELSE UNCHANGED <<db, seq>>
    /\ pc' = [pc EXCEPT ![v] = "idle"]
    /\ snap' = [snap EXCEPT ![v] = {}]
    /\ UNCHANGED wishRest

\* The delete button of an item of a listed normal list.
DeleteItemButton(v, id) ==
    /\ \E lst \in ListsListing(WishFamily) : ~IsWishlist(lst) /\ id \in Ids(ItemsOf(lst.id))
    /\ Write("list_items", DeleteItem(id))
    /\ UNCHANGED <<pc, snap>> /\ UNCHANGED wishRest

\* "Delete List" of a listed list.
DeleteListButton(v, id) ==
    /\ id \in Ids(ListsListing(WishFamily))
    /\ \E now \in Times : Write("lists", SoftDeleteList(WishFamily, id, now))
    /\ UNCHANGED <<pc, snap>> /\ UNCHANGED wishRest

CanInsertWish == RowsEver < MaxWishRows

ItemIdsEver == 1..seq["list_items"]

InitWish ==
    /\ db = EmptyDb
    /\ seq = [t \in Counters |-> 0]
    /\ ADMIN_KEY = NULL
    /\ pc = [v \in Viewers |-> "idle"]
    /\ snap = [v \in Viewers |-> {}]
    /\ session_state = NULL
    /\ new_count = 0
    /\ counted = NULL
    /\ query_params = NULL
    /\ uploads = {}
    /\ MAGIC_OK = FALSE
    /\ schema = Initialised

NextWish ==
    \/ CanInsertWish /\ \E v \in Viewers, ty \in ListTypes : CreateListBy(v, ty)
    \/ CanInsertWish /\ \E v \in Viewers : \E id \in Ids(ListsListing(WishFamily)) :
          AddItem(v, id)
    \/ \E v \in Viewers : Fetch(v)
    \/ \E v \in Viewers, kind \in Kinds : \E id \in ItemIdsEver : Press(v, kind, id)
    \/ \E v \in Viewers : \E id \in ItemIdsEver : DeleteItemButton(v, id)
    \/ \E v \in Viewers : \E id \in Ids(db["lists"]) : DeleteListButton(v, id)

SpecWish == InitWish /\ [][NextWish]_vars

Item(id) == CHOOSE it \in db["list_items"] : it.id = id

ListOf(it) == CHOOSE lst \in db["lists"] : lst.id = it.list_id

\* The item state machine of the lists tab: the row after viewer X attempts `kind`.
Machine(it, kind, X) ==
    IF it.purchased_by # NULL THEN it
    ELSE IF it.claimed_by = NULL
         THEN IF kind = "claim" THEN [it EXCEPT !.claimed_by = X] ELSE it
    ELSE IF it.claimed_by = X
         THEN CASE kind = "unclaim" -> [it EXCEPT !.claimed_by = NULL]
                [] kind = "purchase" -> [it EXCEPT !.purchased_by = X]
                [] OTHER -> it
    ELSE it

\* C4: when the pressing viewer's screen is what the store holds (one viewer acts at
\* a time), a claim / unclaim / purchase press on a listed wishlist item by a viewer
\* who is not the list's creator moves the item exactly as the machine says
\* (unclaimed -claim X-> claimed X; claimed X -unclaim X-> unclaimed;
\* claimed X -purchase X-> purchased X; nothing else moves), and no other row changes.
C4_ItemFollowsMachine ==
    [][\A v \in Viewers :
          (pc[v] = "rendered" /\ pc'[v] = "idle" /\ snap[v] = FreshView(v))
          => \A kind \in Kinds : \A e \in snap[v] :
                (Press(v, kind, e.id) /\ ListOf(Item(e.id)).created_by # v)
                => db'["list_items"] =
                      {IF it.id = e.id THEN Machine(it, kind, v) ELSE it
                         : it \in db["list_items"]}]_vars

\* An item that went unclaimed -> claimed(X) -> purchased(X).
C4_Witness ==
    \E it \in db["list_items"] : it.purchased_by # NULL /\ it.claimed_by = it.purchased_by

\* C5: under any interleaving of the sessions' fetches and presses, an item whose
\* purchased_by is set keeps its purchased_by and its claimed_by in every later step.
C5_PurchasedIsAbsorbing ==
    [][\A it \in db["list_items"] :
          it.purchased_by # NULL
          => \E it2 \in db'["list_items"] :
                /\ it2.id = it.id
                /\ it2.purchased_by = it.purchased_by
                /\ it2.claimed_by = it.claimed_by]_vars

\* C6: under any interleaving, the claimed_by of an item claimed by X and not
\* purchased changes only in a step that is X's own unclaim press.
C6_OnlyClaimerClearsClaim ==
    [][\A it \in db["list_items"] :
          (it.claimed_by # NULL /\ it.purchased_by = NULL)
          => \/ \E it2 \in db'["list_items"] : it2.id = it.id /\ it2.claimed_by = it.claimed_by
             \/ Press(it.claimed_by, "unclaim", it.id)]_vars

OwnWishlists(v) == {lst \in db["lists"] : IsWishlist(lst) /\ lst.created_by = v}

OwnPart(view, v) == {e \in view : e.list_id \in Ids(OwnWishlists(v))}

ClaimStates == (Viewers \cup {NULL}) \X (Viewers \cup {NULL})

\* The item tables that differ from the store only in the claimed_by / purchased_by
\* of the items of v's own wishlists.
Variants(v) ==
    LET own == {it \in db["list_items"] : it.list_id \in Ids(OwnWishlists(v))}
    IN  {(db["list_items"] \ own) \cup
            {[it EXCEPT !.claimed_by = f[it.id][1], !.purchased_by = f[it.id][2]] : it \in own}
           : f \in [Ids(own) -> ClaimStates]}

\* Every step viewer v can take in the lists tab.
StepBy(v) ==
    \/ \E ty \in ListTypes : CreateListBy(v, ty)
    \/ \E id \in Ids(db["lists"]) : AddItem(v, id) \/ DeleteListButton(v, id)
    \/ \E id \in ItemIdsEver : DeleteItemButton(v, id)
    \/ \E kind \in Kinds : \E id \in ItemIdsEver : Press(v, kind, id)

\* C7: what a wishlist's creator is shown of that list's items (caption and buttons)
\* is the same for every assignment of claimed_by / purchased_by to those items, and
\* no step of the creator changes the claimed_by or purchased_by of such an item.
C7_CreatorNeverObservesClaims ==
    [][/\ \A v \in Viewers :
             (pc[v] = "idle" /\ pc'[v] = "rendered" /\ Fetch(v))
             => \A its \in Variants(v) :
                   OwnPart(RenderView(v, ListsListing(WishFamily), its), v)
                      = OwnPart(snap'[v], v)
       /\ \A it \in db["list_items"] :
             (it \notin db'["list_items"] /\ IsWishlist(ListOf(it)))
             => ~StepBy(ListOf(it).created_by)]_vars

\* The creator has the list on screen while one of its items is purchased.
C7_Witness ==
    \E v \in Viewers : \E e \in OwnPart(snap[v], v) :
       /\ pc[v] = "rendered"
       /\ \E it \in db["list_items"] : it.id = e.id /\ it.purchased_by # NULL

(***************************************************************************)
(* Chat tab of one viewer session.  Every run of the tab loads the room's  *)
(* messages, computes new_from_others against the cursor kept in           *)
(* st.session_state and shows the badge; only a run that reaches the end   *)
(* of the script stores the cursor.  `counted` is a history variable: for  *)
(* each message id, in how many runs new_from_others held it.              *)
(***************************************************************************)
StateKey(FAMILY, room) == "last_seen_chat_" \o FAMILY \o "_" \o room

\* int(st.session_state.get(state_key, 0) or 0)
PrevSeen(state_key) ==
    IF state_key \in DOMAIN session_state THEN session_state[state_key] ELSE 0

\* int(msgs[-1]["id"]) if msgs else 0
LastId(msgs) ==
    IF msgs = {} THEN 0 ELSE CHOOSE i \in Ids(msgs) : \A j \in Ids(msgs) : j <= i

NewFromOthers(msgs, prev_seen, DISPLAY_NAME) ==
    {m \in msgs : m.id > prev_seen /\ m.author # DISPLAY_NAME}

Counted(id) == IF id \in DOMAIN counted THEN counted[id] ELSE 0

\* Load the room, compute new_count and show the badge.
LoadAndCount(room) ==
    LET msgs == ChatListing(ChatFamily, room)
        news == NewFromOthers(msgs, PrevSeen(StateKey(ChatFamily, room)), ChatViewer)
    IN  /\ new_count' = Cardinality(news)
        /\ counted' = [id \in DOMAIN counted \cup Ids(news) |->
                          IF id \in Ids(news) /\ Counted(id) < MaxCounted
                             THEN Counted(id) + 1 ELSE Counted(id)]

\* st.session_state[state_key] = last_id, with last_id of the messages the run loaded.
StoreCursor(room) ==
    session_state' = (StateKey(ChatFamily, room) :> LastId(ChatListing(ChatFamily, room)))
                        @@ session_state

chatRest == <<ADMIN_KEY, pc, snap, query_params, uploads, MAGIC_OK, schema>>

\* A run with no button pressed (first visit, autorefresh, rerun after a write).
RenderRoom(room) ==
    /\ room \in ExistingRooms(ChatFamily)
    /\ LoadAndCount(room)
    /\ StoreCursor(room)
    /\ UNCHANGED <<db, seq>> /\ UNCHANGED chatRest

\* The run of a Send press: the insert is followed by st.rerun(), which ends the run
\* before the cursor is stored; an empty message is not sent and the run completes.
SendRun(room, msg) ==
    /\ room \in ExistingRooms(ChatFamily)
    /\ LoadAndCount(room)
    /\ IF Strip(msg) # ""
          THEN /\ Insert("chat_messages", ChatRow(ChatFamily, room, ChatViewer))
               /\ UNCHANGED session_state
          ELSE /\ StoreCursor(room)
               /\ UNCHANGED <<db, seq>>
    /\ UNCHANGED chatRest

\* The run of a quick-delete press on one of the viewer's own messages.
DeleteRun(room, id) ==
    /\ room \in ExistingRooms(ChatFamily)
    /\ id \in Ids(MineListing(ChatFamily, room, ChatViewer))
    /\ LoadAndCount(room)
    /\ Write("chat_messages", DeleteChat(ChatFamily, room, ChatViewer, id))
    /\ UNCHANGED session_state /\ UNCHANGED chatRest

\* The run of a Refresh press: st.rerun() at once.
RefreshRun(room) ==
    /\ room \in ExistingRooms(ChatFamily)
    /\ LoadAndCount(room)
    /\ UNCHANGED <<db, seq, session_state>> /\ UNCHANGED chatRest

CanInsertChat == RowsEver < MaxChatRows

InitChat ==
    /\ db = EmptyDb
    /\ seq = [t \in Counters |-> 0]
    /\ ADMIN_KEY = NULL
    /\ pc = NULL
    /\ snap = NULL
    /\ session_state = <<>>
    /\ new_count = 0
    /\ counted = <<>>
    /\ query_params = NULL
    /\ uploads = {}
    /\ MAGIC_OK = FALSE
    /\ schema = Initialised

NextChat ==
    \/ CanInsertChat /\ \E f \in Families, room \in Rooms : SendMessage(f, room, "bob")
    \/ CanInsertChat /\ \E f \in Families, new_room \in Rooms : AddRoom(f, new_room)
    \/ \E room \in Rooms : \E id \in Ids(db["chat_messages"]) :
          DeleteMessage(ChatFamily, room, "bob", id)
    \/ \E room \in Rooms : RenderRoom(room)
    \/ \E room \in Rooms, msg \in Texts :
          (Strip(msg) # "" => CanInsertChat) /\ SendRun(room, msg)
    \/ \E room \in Rooms : \E id \in Ids(db["chat_messages"]) : DeleteRun(room, id)
    \/ \E room \in Rooms : RefreshRun(room)

SpecChat == InitChat /\ [][NextChat]_vars

\* Any run of the chat tab on `room` that gets as far as the badge.
RenderOf(room) ==
    \/ RenderRoom(room)
    \/ \E msg \in Texts : SendRun(room, msg)
    \/ \E id \in Ids(db["chat_messages"]) : DeleteRun(room, id)
    \/ RefreshRun(room)

\* C9: a render of a room whose cursor is C and whose newest message has id C+1 and
\* another author shows the badge and leaves the cursor at C+1; a render of a room
\* with no message of another author above the cursor shows no badge.
C9_ChatFreshness ==
    [][\A room \in Rooms :
          RenderOf(room)
          => LET C == PrevSeen(StateKey(ChatFamily, room))
                 msgs == ChatListing(ChatFamily, room)
             IN  /\ (LastId(msgs) = C + 1 /\ NewFromOthers(msgs, C, ChatViewer) # {})
                    => (new_count' > 0 /\ PrevSeen(StateKey(ChatFamily, room))' = C + 1)
                 /\ NewFromOthers(msgs, C, ChatViewer) = {} => new_count' = 0]_vars

\* C10: no message is counted by the badge in more than one render of the session.
C10_CountedAtMostOnce == \A id \in DOMAIN counted : counted[id] <= 1

(***************************************************************************)
(* Calendar arithmetic (datetime.date, timedelta, calendar.monthrange) and *)
(* the ISO text of a datetime.  A date is [y, m, d]; a datetime adds h and *)
(* mi; the ISO text is the sequence of its characters.                     *)
(***************************************************************************)
CalYears == 2022 .. 2026

IsLeap(y) == (y % 4 = 0 /\ y % 100 # 0) \/ y % 400 = 0

\* calendar.monthrange(y, m)[1]
DaysInMonth(y, m) ==
    IF m = 2 THEN (IF IsLeap(y) THEN 29 ELSE 28)
    ELSE IF m \in {4, 6, 9, 11} THEN 30 ELSE 31

MkDate(y, m, d) == [y |-> y, m |-> m, d |-> d]

\* date comparison
DateLess(a, b) ==
    \/ a.y < b.y
    \/ a.y = b.y /\ a.m < b.m
    \/ a.y = b.y /\ a.m = b.m /\ a.d < b.d

DateLeq(a, b) == a = b \/ DateLess(a, b)

DaysBeforeYear(y) ==
    LET p == y - 1 IN p * 365 + (p \div 4) - (p \div 100) + (p \div 400)

RECURSIVE DaysBeforeMonth(_, _)
DaysBeforeMonth(y, m) ==
    IF m = 1 THEN 0 ELSE DaysBeforeMonth(y, m - 1) + DaysInMonth(y, m - 1)

\* date.toordinal()
ToOrdinal(dt) == DaysBeforeYear(dt.y) + DaysBeforeMonth(dt.y, dt.m) + dt.d

\* date.fromordinal(n)
FromOrdinal(n) ==
    LET y == CHOOSE yy \in CalYears : DaysBeforeYear(yy) < n /\ n <= DaysBeforeYear(yy + 1)
        r == n - DaysBeforeYear(y)
        m == CHOOSE mm \in 1 .. 12 :
                DaysBeforeMonth(y, mm) < r /\ r <= DaysBeforeMonth(y, mm) + DaysInMonth(y, mm)
    IN  MkDate(y, m, r - DaysBeforeMonth(y, m))

\* d + timedelta(days=n)
PlusDays(dt, n) == FromOrdinal(ToOrdinal(dt) + n)

\* date.weekday(): Monday is 0
Weekday(dt) == (ToOrdinal(dt) + 6) % 7

\* datetime.combine(d, t)
Combine(dt, t) == [y |-> dt.y, m |-> dt.m, d |-> dt.d, h |-> t.h, mi |-> t.mi]

DateOf(x) == MkDate(x.y, x.m, x.d)

TimeOf(x) == [h |-> x.h, mi |-> x.mi]

Midnight == [h |-> 0, mi |-> 0]

Digits == <<"0", "1", "2", "3", "4", "5", "6", "7", "8", "9">>

RECURSIVE Pad(_, _)
\* n written with w digits, zero padded
Pad(n, w) == IF w = 0 THEN <<>> ELSE Pad(n \div 10, w - 1) \o <<Digits[(n % 10) + 1]>>

DigitVal(c) == CHOOSE k \in 0 .. 9 : Digits[k + 1] = c

RECURSIVE NumAt(_, _, _)
\* the number written in the w characters of s that start at position i
NumAt(s, i, w) ==
    IF w = 0 THEN 0 ELSE NumAt(s, i, w - 1) * 10 + DigitVal(s[i + w - 1])

\* datetime.isoformat() of a naive datetime with zero seconds: YYYY-MM-DDTHH:MM:SS
IsoFormat(x) ==
    Pad(x.y, 4) \o <<"-">> \o Pad(x.m, 2) \o <<"-">> \o Pad(x.d, 2) \o <<"T">>
       \o Pad(x.h, 2) \o <<":">> \o Pad(x.mi, 2) \o <<":">> \o Pad(0, 2)

\* from_iso / datetime.fromisoformat
FromIso(s) ==
    [y |-> NumAt(s, 1, 4), m |-> NumAt(s, 6, 2), d |-> NumAt(s, 9, 2),
     h |-> NumAt(s, 12, 2), mi |-> NumAt(s, 15, 2)]

\* Mutant of ToExclusiveEnd: the end is stored as midnight of the end date itself.
ToInclusiveEnd(dt) == Combine(dt, Midnight)

\* to_exclusive_end(d): midnight of the day after d
ToExclusiveEnd(dt) == Combine(PlusDays(dt, 1), Midnight)

(***************************************************************************)
(* Calendar tab: create_event form and the "Manage events" editor.  Event  *)
(* rows carry the history fields in_sd, in_ed (the dates the form held     *)
(* when the row was last written) and via (which form wrote it).           *)
(***************************************************************************)
CalFamily == "smith"

\* Values of the date inputs.
CalDates ==
    {MkDate(2023, 2, 28), MkDate(2024, 2, 28), MkDate(2024, 2, 29), MkDate(2024, 12, 31)}

\* Values of the time inputs.
CalTimes == {[h |-> 9, mi |-> 0], [h |-> 10, mi |-> 0]}

EventTitles == {"", "e"}

\* s_iso of the create and update forms
StartIso(sd, all_day, stime) ==
    IF all_day THEN IsoFormat(Combine(sd, Midnight)) ELSE IsoFormat(Combine(sd, stime))

\* e_iso of the create and update forms
EndIso(ed, all_day, etime) ==
    IF all_day THEN IsoFormat(ToExclusiveEnd(ed)) ELSE IsoFormat(Combine(ed, etime))

\* INSERT INTO events(title, start_at, end_at, assignees, family, all_day)
CalEventRow(FAMILY, title, sd, ed, all_day, stime, etime) ==
    [id |-> NextId("events"), family |-> FAMILY, origin |-> FAMILY, title |-> title,
     start_at |-> StartIso(sd, all_day, stime), end_at |-> EndIso(ed, all_day, etime),
     all_day |-> IF all_day THEN 1 ELSE 0,
     in_sd |-> sd, in_ed |-> ed, via |-> "create"]

\* UPDATE events SET title=?, start_at=?, end_at=?, assignees=?, all_day=?
\* WHERE id=? AND family=?
UpdateCalEvent(FAMILY, id, title, sd, ed, all_day, stime, etime) ==
    {IF r.id = id /\ r.family = FAMILY
        THEN [r EXCEPT !.title = IF title = "" THEN "Untitled" ELSE title,
                       !.start_at = StartIso(sd, all_day, stime),
                       !.end_at = EndIso(ed, all_day, etime),
                       !.all_day = IF all_day THEN 1 ELSE 0,
                       !.in_sd = sd, !.in_ed = ed, !.via = "update"]
        ELSE r
     : r \in db["events"]}

\* The widgets of the editor of event e as first shown: start date, end date
\* (disp_end_date), all-day box and the two times.
EditForm(e) ==
    LET sdt == FromIso(e.start_at)
        edt == FromIso(e.end_at)
        all_day_val == e.all_day # 0
    IN  [sd |-> DateOf(sdt),
         ed |-> IF all_day_val THEN PlusDays(DateOf(edt), -1) ELSE DateOf(edt),
         all_day |-> all_day_val,
         stime |-> IF all_day_val THEN Midnight ELSE TimeOf(sdt),
         etime |-> IF all_day_val THEN Midnight ELSE TimeOf(edt)]

calRest == <<ADMIN_KEY, pc, snap, session_state, new_count, counted, query_params, uploads, MAGIC_OK, schema>>

\* "Add Event" with the widget values w: nothing happens on an empty title; an end
\* date before the start date is refused with st.error and st.stop().
CreateEventRun(title, w) ==
    /\ IF title = "" \/ DateLess(w.ed, w.sd)
          THEN UNCHANGED <<db, seq>>
          ELSE Insert("events", CalEventRow(CalFamily, title, w.sd, w.ed, w.all_day,
                                            w.stime, w.etime))
    /\ UNCHANGED calRest

\* "Update" of a listed event with the widget values w.
UpdateEventRun(id, title, w) ==
    /\ id \in Ids(EventsListing(CalFamily))
    /\ IF DateLess(w.ed, w.sd)
          THEN UNCHANGED <<db, seq>>
          ELSE Write("events", UpdateCalEvent(CalFamily, id, title, w.sd, w.ed, w.all_day,
                                              w.stime, w.etime))
    /\ UNCHANGED calRest

\* The widget values a user can leave in the create form; the time inputs are disabled while
\* the all-day box is ticked.
TypedForms ==
    [sd : CalDates, ed : CalDates, all_day : {TRUE}, stime : {Midnight}, etime : {Midnight}]
    \cup [sd : CalDates, ed : CalDates, all_day : {FALSE}, stime : CalTimes,
          etime : {[h |-> 10, mi |-> 0]}]

\* The widget values of the editor of e when Update is pressed: as first shown, or
\* with one widget changed by the user.
EditedForms(e) ==
    LET f == EditForm(e)
    IN  {f} \cup {[f EXCEPT !.sd = d] : d \in CalDates}
            \cup {[f EXCEPT !.ed = d] : d \in CalDates}
            \cup {[f EXCEPT !.all_day = ~f.all_day]}
            \cup {[f EXCEPT !.stime = t] : t \in CalTimes}

DeleteEventRun(id) ==
    /\ id \in Ids(EventsListing(CalFamily))
    /\ Write("events", DeleteEvent(CalFamily, id))
    /\ UNCHANGED calRest

CanInsertCal == RowsEver < MaxCalRows

InitCal ==
    /\ db = EmptyDb
    /\ seq = [t \in Counters |-> 0]
    /\ ADMIN_KEY = NULL
    /\ pc = NULL
    /\ snap = NULL
    /\ session_state = NULL
    /\ new_count = 0
    /\ counted = NULL
    /\ query_params = NULL
    /\ uploads = {}
    /\ MAGIC_OK = FALSE
    /\ schema = Initialised

NextCal ==
    \/ \E title \in EventTitles, w \in TypedForms :
          /\ (title # "" /\ ~DateLess(w.ed, w.sd)) => CanInsertCal
          /\ CreateEventRun(title, w)
    \/ \E e \in EventsListing(CalFamily) : \E title \in EventTitles, w \in EditedForms(e) :
          UpdateEventRun(e.id, title, w)
    \/ \E id \in Ids(db["events"]) : DeleteEventRun(id)

SpecCal == InitCal /\ [][NextCal]_vars

\* The calendar day after dt, by the rules of the calendar.
NextDay(dt) ==
    IF dt.d < DaysInMonth(dt.y, dt.m) THEN MkDate(dt.y, dt.m, dt.d + 1)
    ELSE IF dt.m < 12 THEN MkDate(dt.y, dt.m + 1, 1)
    ELSE MkDate(dt.y + 1, 1, 1)

\* C11: an all-day event written from a form holding start date D and end date E >= D
\* is shown in the editor with start date D and end date E, and its stored end_at is
\* midnight of the day after E.
C11_AllDayRoundTrip ==
    \A e \in db["events"] :
       e.all_day = 1
       => /\ EditForm(e).sd = e.in_sd
          /\ EditForm(e).ed = e.in_ed
          /\ e.end_at = IsoFormat(Combine(NextDay(e.in_ed), Midnight))

\* A one-day all-day event on 31 December, written by the Update button.
C11_Witness ==
    \E e \in db["events"] :
       /\ e.all_day = 1 /\ e.via = "update"
       /\ e.in_sd = e.in_ed /\ e.in_ed = MkDate(2024, 12, 31)

(***************************************************************************)
(* Corkboard: order of the notes.                                          *)
(***************************************************************************)
\* ORDER BY order_index DESC, id DESC
Before(a, b) == a.order_index > b.order_index \/ (a.order_index = b.order_index /\ a.id > b.id)

\* The rows of S as the ORDER BY returns them: the row at position i has i - 1 rows
\* before it.
Ordered(S) ==
    [i \in 1 .. Cardinality(S) |->
        CHOOSE r \in S : Cardinality({o \in S : Before(o, r)}) = i - 1]

\* The notes query without filters: LIMIT PAGE_SIZE OFFSET page * PAGE_SIZE.
NotesPage(FAMILY, page) ==
    LET all == Ordered(NotesListing(FAMILY))
        lo == page * PAGE_SIZE + 1
        hi == IF Len(all) < lo + PAGE_SIZE - 1 THEN Len(all) ELSE lo + PAGE_SIZE - 1
    IN  SubSeq(all, lo, hi)

CanInsertNote == RowsEver < MaxNoteRows

NextNotes ==
    \/ CanInsertNote /\ \E f \in Families : AddNote(f)
    \/ \E f \in Families, now \in Times : \E id \in Ids(NotesListing(f)) : DeleteNote(f, id, now)

SpecNotes == Init /\ [][NextNotes]_vars

FamilyNotes(f) == {n \in db["notes"] : n.family = f}

\* C12: a new note gets 1 + the largest order_index of the alive notes of its family
\* (1 when there are none); in a family where no note was deleted the k-th note added
\* has order_index k, and the default listing is the notes in reverse order of
\* insertion.
C12_NoteOrdering ==
    /\ [][\A f \in Families :
             AddNote(f)
             => \E r \in db'["notes"] \ db["notes"] :
                   /\ r.family = f
                   /\ \A n \in NotesListing(f) : n.order_index < r.order_index
                   /\ \/ r.order_index = 1 /\ NotesListing(f) = {}
                      \/ \E n \in NotesListing(f) : r.order_index = n.order_index + 1]_vars
    /\ [](\A f \in Families :
             FamilyNotes(f) = NotesListing(f)
             => LET page == NotesPage(f, 0)
                    k == Cardinality(FamilyNotes(f))
                IN  /\ Len(page) = k
                    /\ \A i \in 1 .. k :
                          /\ page[i].order_index = k + 1 - i
                          /\ \A j \in 1 .. k : i < j => page[i].id > page[j].id)

\* Three notes added to a family in which no note was deleted.
C12_Witness ==
    \E f \in Families :
       Cardinality(NotesListing(f)) = 3 /\ FamilyNotes(f) = NotesListing(f)

(***************************************************************************)
(* Calendar tab: view, reference date and the window of days it loads.     *)
(* session_state holds fc_view and fc_ref; snap holds the window d0, d1 of *)
(* the latest run.                                                         *)
(***************************************************************************)
Views == {"dayGridMonth", "timeGridWeek", "timeGridDay", "listMonth"}

\* The reference dates the navigation stays within.
NavDates ==
    {x \in [y : {2023, 2024}, m : 1 .. 12, d : 1 .. 31] : x.d <= DaysInMonth(x.y, x.m)}

\* date.today() of the runs.
Todays == {MkDate(2023, 3, 15), MkDate(2024, 1, 31)}

\* Mutant of Window: the month window ends 30 days after its first day.
WindowThirtyDays(view, ref) ==
    IF view \in {"dayGridMonth", "listMonth"}
       THEN [d0 |-> MkDate(ref.y, ref.m, 1), d1 |-> PlusDays(MkDate(ref.y, ref.m, 1), 30)]
    ELSE IF view = "timeGridWeek"
       THEN [d0 |-> PlusDays(ref, 0 - Weekday(ref)),
             d1 |-> PlusDays(PlusDays(ref, 0 - Weekday(ref)), 6)]
    ELSE [d0 |-> ref, d1 |-> ref]

\* Mutant of Window: the week is counted from isoweekday(), so it starts on a Sunday.
WindowFromSunday(view, ref) ==
    IF view \in {"dayGridMonth", "listMonth"}
       THEN [d0 |-> MkDate(ref.y, ref.m, 1),
             d1 |-> MkDate(ref.y, ref.m, DaysInMonth(ref.y, ref.m))]
    ELSE IF view = "timeGridWeek"
       THEN [d0 |-> PlusDays(ref, 0 - (Weekday(ref) + 1)),
             d1 |-> PlusDays(PlusDays(ref, 0 - (Weekday(ref) + 1)), 6)]
    ELSE [d0 |-> ref, d1 |-> ref]

\* "Determine window": d0, d1 of the view and reference date.
Window(view, ref) ==
    IF view \in {"dayGridMonth", "listMonth"}
       THEN [d0 |-> MkDate(ref.y, ref.m, 1),
             d1 |-> MkDate(ref.y, ref.m, DaysInMonth(ref.y, ref.m))]
    ELSE IF view = "timeGridWeek"
       THEN [d0 |-> PlusDays(ref, 0 - Weekday(ref)),
             d1 |-> PlusDays(PlusDays(ref, 0 - Weekday(ref)), 6)]
    ELSE [d0 |-> ref, d1 |-> ref]

\* ref after "Prev"
PrevRef(view, ref) ==
    IF view \in {"dayGridMonth", "listMonth"}
       THEN MkDate(IF ref.m = 1 THEN ref.y - 1 ELSE ref.y, IF ref.m = 1 THEN 12 ELSE ref.m - 1, 1)
    ELSE IF view = "timeGridWeek" THEN PlusDays(ref, -7)
    ELSE PlusDays(ref, -1)

\* ref after "Next"
NextRef(view, ref) ==
    IF view \in {"dayGridMonth", "listMonth"}
       THEN MkDate(IF ref.m = 12 THEN ref.y + 1 ELSE ref.y, IF ref.m < 12 THEN ref.m + 1 ELSE 1, 1)
    ELSE IF view = "timeGridWeek" THEN PlusDays(ref, 7)
    ELSE PlusDays(ref, 1)

navRest == <<db, seq, ADMIN_KEY, pc, new_count, counted, query_params, uploads, MAGIC_OK, schema>>

\* One run of the tab with the View box at `view` and the reference date left at `ref`
\* by the navigation buttons: both are stored and the window is computed.
ShowCalendar(view, ref) ==
    /\ ref \in NavDates
    /\ session_state' = [fc_view |-> view, fc_ref |-> ref]
    /\ snap' = Window(view, ref)
    /\ UNCHANGED navRest

SelectView(view) == ShowCalendar(view, session_state.fc_ref)

PrevButton == ShowCalendar(session_state.fc_view, PrevRef(session_state.fc_view, session_state.fc_ref))

NextButton == ShowCalendar(session_state.fc_view, NextRef(session_state.fc_view, session_state.fc_ref))

TodayButton(today) == ShowCalendar(session_state.fc_view, today)

InitNav ==
    /\ db = EmptyDb
    /\ seq = [t \in Counters |-> 0]
    /\ ADMIN_KEY = NULL
    /\ pc = NULL
    /\ \E today \in Todays :
          /\ session_state = [fc_view |-> "dayGridMonth", fc_ref |-> today]
          /\ snap = Window("dayGridMonth", today)
    /\ new_count = 0
    /\ counted = NULL
    /\ query_params = NULL
    /\ uploads = {}
    /\ MAGIC_OK = FALSE
    /\ schema = Initialised

NextNav ==
    \/ \E view \in Views : SelectView(view)
    \/ PrevButton
    \/ NextButton
    \/ \E today \in Todays : TodayButton(today)

SpecNav == InitNav /\ [][NextNav]_vars

\* C13: in the month and list views the window runs from the first to the last day of
\* the reference month: d0 is day 1 of that month, d1 lies in it and the day after d1
\* does not; February 2024 ends on the 29th and February 2023 on the 28th.
C13_MonthWindow ==
    session_state.fc_view \in {"dayGridMonth", "listMonth"}
    => LET ref == session_state.fc_ref
       IN  /\ snap.d0 = MkDate(ref.y, ref.m, 1)
           /\ snap.d1.y = ref.y /\ snap.d1.m = ref.m
           /\ FromOrdinal(ToOrdinal(snap.d1) + 1).m # ref.m
           /\ ref = MkDate(2024, 2, 15)
                 => snap = [d0 |-> MkDate(2024, 2, 1), d1 |-> MkDate(2024, 2, 29)]
           /\ ref = MkDate(2023, 2, 15)
                 => snap = [d0 |-> MkDate(2023, 2, 1), d1 |-> MkDate(2023, 2, 28)]

\* The list view on 15 February 2024.
C13_Witness ==
    session_state.fc_view = "listMonth" /\ session_state.fc_ref = MkDate(2024, 2, 15)

(***************************************************************************)
(* Identity of one browser session: st.session_state["user"/"family"], the *)
(* query parameters of its URL and the last_active_user setting of each    *)
(* family.  Every script run starts with _sticky_user_bootstrap.           *)
(***************************************************************************)
\* dict.get(k, default)
Get(d, k, default) == IF k \in DOMAIN d THEN d[k] ELSE default

\* The URLs a session can be opened with.
Urls ==
    {<<>>} \cup [family : Families] \cup [user : Users] \cup [user : Users, family : Families]

\* SELECT value FROM app_settings WHERE family=? AND key=? LIMIT 1 on the rows given
SettingIn(rows, family, key) ==
    IF \E r \in rows : r.family = family /\ r.key = key
       THEN (CHOOSE r \in rows : r.family = family /\ r.key = key).value
       ELSE NULL

\* _get_setting(family, key, None)
GetSetting(family, key) == SettingIn(db["app_settings"], family, key)

\* _set_setting(family, key, value) with a value: INSERT ... ON CONFLICT(family,key)
\* DO UPDATE SET value=excluded.value
SetSetting(family, key, value) ==
    {r \in db["app_settings"] : ~(r.family = family /\ r.key = key)}
       \cup {[family |-> family, key |-> key, value |-> value]}

\* Mutant of Bootstrap: the last_active_user fallback is missing.
BootstrapWithoutFallback(ss, qp) ==
    [user |-> Get(ss, "user", Get(qp, "user", "Guest")),
     family |-> Get(ss, "family", Get(qp, "family", "public"))]

\* _sticky_user_bootstrap followed by the sidebar defaults: st.session_state after it,
\* from the state ss the run started with and the query parameters qp.
Bootstrap(ss, qp) ==
    LET user == Get(ss, "user", Get(qp, "user", "Guest"))
        family == Get(ss, "family", Get(qp, "family", "public"))
        fam == IF family = "" THEN "public" ELSE family
        last == GetSetting(fam, "last_active_user")
    IN  [user |-> IF Get(qp, "user", "") = "" /\ last # NULL /\ last # "" /\ user # last
                     THEN last ELSE user,
         family |-> family]

\* DISPLAY_NAME = st.session_state["user"] or "Guest"
DisplayName(ss) == IF ss.user = "" THEN "Guest" ELSE ss.user

\* FAMILY = st.session_state["family"] or "public"
Family(ss) == IF ss.family = "" THEN "public" ELSE ss.family

idRest == <<seq, ADMIN_KEY, snap, new_count, counted, uploads, MAGIC_OK, schema>>

\* A browser opens the app at `url`: a new session, whose first script run follows.
NewSession(url) ==
    /\ pc = "idle"
    /\ query_params' = url
    /\ session_state' = <<>>
    /\ pc' = "run"
    /\ UNCHANGED db /\ UNCHANGED idRest

\* The user types into "Display name" (key="user"): the value is in st.session_state
\* when the script run it triggers starts.
TypeName(user) ==
    /\ pc = "idle"
    /\ session_state' = [session_state EXCEPT !.user = user]
    /\ pc' = "run"
    /\ UNCHANGED <<db, query_params>> /\ UNCHANGED idRest

\* The user types into "Family name" (key="family").
TypeFamily(family) ==
    /\ pc = "idle"
    /\ session_state' = [session_state EXCEPT !.family = family]
    /\ pc' = "run"
    /\ UNCHANGED <<db, query_params>> /\ UNCHANGED idRest

\* The user presses "Save Profile".
PressSave ==
    /\ pc = "idle"
    /\ pc' = "save"
    /\ UNCHANGED <<db, query_params, session_state>> /\ UNCHANGED idRest

\* A script run with no button pressed.
RunScript ==
    /\ pc = "run"
    /\ session_state' = Bootstrap(session_state, query_params)
    /\ pc' = "idle"
    /\ UNCHANGED <<db, query_params>> /\ UNCHANGED idRest

\* INSERT OR IGNORE INTO user_profiles(family, username, ...)
ProfileRows(family, username) ==
    db["user_profiles"] \cup {[family |-> family, username |-> username]}

\* The script run of a "Save Profile" press without a photo: the bootstrap,
\* _get_or_create_profile and _stick_user_to_url_and_settings.
SaveProfile ==
    LET ss == Bootstrap(session_state, query_params)
        fam == Family(ss)
        user == DisplayName(ss)
    IN  /\ pc = "save"
        /\ session_state' = ss
        /\ query_params' = [user |-> user, family |-> fam]
        /\ db' = [db EXCEPT !["user_profiles"] = ProfileRows(fam, user),
                            !["app_settings"] = SetSetting(fam, "last_active_user", user)]
        /\ pc' = "idle"
        /\ UNCHANGED idRest

InitId ==
    /\ db = EmptyDb
    /\ seq = [t \in Counters |-> 0]
    /\ ADMIN_KEY = NULL
    /\ pc = "run"
    /\ snap = NULL
    /\ query_params \in Urls
    /\ session_state = <<>>
    /\ new_count = 0
    /\ counted = NULL
    /\ uploads = {}
    /\ MAGIC_OK = FALSE
    /\ schema = Initialised

NextIdentity ==
    \/ \E url \in Urls : NewSession(url)
    \/ \E user \in Users \cup {""} : TypeName(user)
    \/ \E family \in Families \cup {""} : TypeFamily(family)
    \/ PressSave
    \/ RunScript
    \/ SaveProfile

SpecId == InitId /\ [][NextIdentity]_vars

\* The display name the stated priority gives a run that starts with transient state
\* ss, query parameters qp and the settings of the store.
ByPriority(ss, qp) ==
    LET family == Get(ss, "family", Get(qp, "family", "public"))
        last == GetSetting(IF family = "" THEN "public" ELSE family, "last_active_user")
    IN  IF "user" \in DOMAIN ss THEN ss.user
        ELSE IF Get(qp, "user", "") # "" THEN qp.user
        ELSE IF last # NULL THEN last
        ELSE "Guest"

\* C14: the display name a run resolves follows the priority transient state, then
\* query parameters, then last_active_user, then Guest: a run that starts with a
\* display name in its transient state ends with that display name.
C14_IdentityPriority ==
    [][(RunScript \/ SaveProfile)
          => session_state'.user = ByPriority(session_state, query_params)]_vars

LastActive(family) == GetSetting(family, "last_active_user")

LastActiveAfter(family) == SettingIn(db'["app_settings"], family, "last_active_user")

MaxPurgeRows == 2

IMG_MIMES == {"image/jpeg", "image/png", "image/gif"}
VID_MIMES == {"video/mp4", "video/webm", "video/quicktime"}
ALLOWED_MIMES == IMG_MIMES \cup VID_MIMES

Photo == [ext |-> ".jpg", magic |-> "image/jpeg", big |-> FALSE]
Clip == [ext |-> ".mp4", magic |-> "video/mp4", big |-> FALSE]
\* Files whose name does not tell what they hold, and a file above MAX_MB.
PdfNamedJpg == [ext |-> ".jpg", magic |-> "application/pdf", big |-> FALSE]
ClipNamedJpg == [ext |-> ".jpg", magic |-> "video/mp4", big |-> FALSE]
HugePhoto == [ext |-> ".jpg", magic |-> "image/jpeg", big |-> TRUE]

\* ext_map.get(fallback_ext.lower(), "application/octet-stream")
ExtMap(ext) ==
    CASE ext \in {".jpg", ".jpeg"} -> "image/jpeg"
      [] ext = ".png" -> "image/png"
      [] ext = ".gif" -> "image/gif"
      [] ext = ".mp4" -> "video/mp4"
      [] ext = ".webm" -> "video/webm"
      [] ext = ".mov" -> "video/quicktime"
      [] OTHER -> "application/octet-stream"

\* sniff_mime: the type libmagic reports when python-magic is installed, else the
\* type of the file name's extension.
SniffMime(upload) == IF MAGIC_OK THEN upload.magic ELSE ExtMap(upload.ext)

\* Mutant of Accepted: save_media stores whatever it is given.
AcceptedAlways(upload) == TRUE

\* save_media returns instead of calling st.stop().
Accepted(upload) == ~upload.big /\ SniffMime(upload) \in ALLOWED_MIMES

MediaType(upload) == IF SniffMime(upload) \in IMG_MIMES THEN "image" ELSE "video"

\* save_image writes a <stem>_thumb.webp when PIL can open the bytes and the type is
\* not image/gif; save_video's thumbnail needs moviepy and is left out.
HasThumb(upload) ==
    /\ SniffMime(upload) \in IMG_MIMES \ {"image/gif"}
    /\ upload.magic \in IMG_MIMES

\* The files save_media writes under the uuid4 name `name`.
Written(upload, name) ==
    {[name |-> name, thumb |-> FALSE]}
        \cup (IF HasThumb(upload) THEN {[name |-> name, thumb |-> TRUE]} ELSE {})

\* The number of leading uploads save_media accepts: the first rejected one stops the run.
RECURSIVE AcceptedPrefix(_)
AcceptedPrefix(ups) ==
    IF ups = <<>> \/ ~Accepted(Head(ups)) THEN 0 ELSE 1 + AcceptedPrefix(Tail(ups))

\* INSERT INTO post_media(post_id, path, thumb_path, mime, media_type)
MediaRow(post_id, upload, i) ==
    [id |-> seq["post_media"] + i, post_id |-> post_id, path |-> seq["uuid"] + i,
     thumb_path |-> IF HasThumb(upload) THEN seq["uuid"] + i ELSE NULL,
     mime |-> SniffMime(upload), media_type |-> MediaType(upload)]

\* The create_post form: the post row is inserted first, then each upload is saved
\* and gets its post_media row; st.stop() inside save_media ends the run there.
CreatePostRun(FAMILY, DISPLAY_NAME, ups) ==
    LET n == AcceptedPrefix(ups)
        post == PostRow(FAMILY, DISPLAY_NAME)
    IN  /\ db' = [db EXCEPT !["posts"] = @ \cup {post},
                            !["post_media"] =
                                @ \cup {MediaRow(post.id, ups[i], i) : i \in 1 .. n}]
        /\ seq' = [seq EXCEPT !["posts"] = @ + 1, !["post_media"] = @ + n,
                              !["uuid"] = @ + n]
        /\ uploads' = uploads \cup UNION {Written(ups[i], seq["uuid"] + i) : i \in 1 .. n}
        /\ UNCHANGED <<ADMIN_KEY, MAGIC_OK, schema, sessionVars>>

(***************************************************************************)
(* The admin's factory reset in the sidebar, statement by statement, next  *)
(* to the sessions of other users.  pc is "idle" between runs, "run" when  *)
(* a widget changed, "wipe" when the button was pressed, and then the      *)
(* statement the run is about to execute.                                  *)
(***************************************************************************)
PWD == "__reset_pwd__"
CONFIRM == "__reset_confirm__"

PurgeOrder ==
    <<"reactions", "comments", "list_items", "lists", "documents", "notes",
      "post_comments", "post_likes", "post_media", "posts", "albums", "chat_messages",
      "event_rsvps", "events", "user_profiles", "app_settings", "unlink", "VACUUM">>

Position(stmt) == CHOOSE i \in 1 .. Len(PurgeOrder) : PurgeOrder[i] = stmt

AfterStatement(stmt) == PurgeOrder[Position(stmt) + 1]

\* What the expander shows for the password in st.session_state.
ResetControls ==
    IF ADMIN_KEY = NULL THEN "unconfigured"
    ELSE IF session_state[PWD] # ADMIN_KEY THEN "locked"
    ELSE "controls"

purgeRest == <<ADMIN_KEY, MAGIC_OK, schema, new_count, counted, query_params>>

TypePassword(pwd) ==
    /\ pc = "idle"
    /\ session_state' = [session_state EXCEPT ![PWD] = pwd]
    /\ pc' = "run"
    /\ UNCHANGED <<db, seq, uploads, snap, purgeRest>>

\* The Confirm input exists only in a page that shows the reset controls.
TypeConfirm(txt) ==
    /\ pc = "idle"
    /\ snap = "controls"
    /\ session_state' = [session_state EXCEPT ![CONFIRM] = txt]
    /\ pc' = "run"
    /\ UNCHANGED <<db, seq, uploads, snap, purgeRest>>

PressWipe ==
    /\ pc = "idle"
    /\ snap = "controls"
    /\ pc' = "wipe"
    /\ UNCHANGED <<db, seq, uploads, snap, session_state, purgeRest>>

SidebarRun ==
    /\ pc = "run"
    /\ snap' = ResetControls
    /\ pc' = "idle"
    /\ UNCHANGED <<db, seq, uploads, session_state, purgeRest>>

\* The run of the pressed button, up to the first DELETE.
WipeRun ==
    /\ pc = "wipe"
    /\ snap' = ResetControls
    /\ pc' = IF ResetAllowed(session_state[PWD], session_state[CONFIRM])
             THEN PurgeOrder[1] ELSE "idle"
    /\ UNCHANGED <<db, seq, uploads, session_state, purgeRest>>

\* exec1("DELETE FROM <table>", ())
PurgeStatement ==
    /\ pc \in Tables
    /\ db' = DeleteFrom(db, pc, db[pc])
    /\ pc' = AfterStatement(pc)
    /\ UNCHANGED <<seq, uploads, snap, session_state, purgeRest>>

\* for p in UPLOAD_DIR.glob("*"): p.unlink(missing_ok=True)
Unlink ==
    /\ pc = "unlink"
    /\ uploads' = {}
    /\ pc' = "VACUUM"
    /\ UNCHANGED <<db, seq, snap, session_state, purgeRest>>

\* exec1("VACUUM", ()), then st.rerun().
Vacuum ==
    /\ pc = "VACUUM"
    /\ pc' = "run"
    /\ UNCHANGED <<db, seq, uploads, snap, session_state, purgeRest>>

\* A statement raises (the database is busy past busy_timeout, VACUUM meets a statement
\* in progress): the except branch shows "Reset failed" and the run ends.
PurgeFails ==
    /\ pc \in Tables \cup {"VACUUM"}
    /\ pc' = "idle"
    /\ UNCHANGED <<db, seq, uploads, snap, session_state, purgeRest>>

CanInsertPurge == seq["notes"] + seq["posts"] < MaxPurgeRows

\* What the other sessions do meanwhile.
OtherSessions ==
    \/ CanInsertPurge /\ AddNote("smith")
    \/ CanInsertPurge /\ \E ups \in {<<>>, <<Photo>>, <<Clip>>} :
          CreatePostRun("smith", "ann", ups)

InitPurge ==
    /\ db = EmptyDb
    /\ seq = [t \in Counters |-> 0]
    /\ ADMIN_KEY \in {NULL, "hunter2"}
    /\ MAGIC_OK \in BOOLEAN
    /\ schema = Initialised
    /\ pc = "run"
    /\ snap = "unconfigured"
    /\ session_state = [k \in {PWD, CONFIRM} |-> ""]
    /\ new_count = 0
    /\ counted = NULL
    /\ query_params = NULL
    /\ uploads = {}

NextPurge ==
    \/ \E pwd \in Passwords : TypePassword(pwd)
    \/ \E txt \in Confirmations : TypeConfirm(txt)
    \/ PressWipe
    \/ SidebarRun
    \/ WipeRun
    \/ PurgeStatement
    \/ Unlink
    \/ Vacuum
    \/ PurgeFails
    \/ OtherSessions

SpecPurge == InitPurge /\ [][NextPurge]_vars

\* A step that takes a row out of a table or a file out of UPLOAD_DIR.
Removes == (\E t \in Tables : ~(db[t] \subseteq db'[t])) \/ ~(uploads \subseteq uploads')

C17_PurgeIsAtomic ==
    [][(\E t \in Tables : db[t] # {} /\ db'[t] = {}) => db' = EmptyDb]_vars

(***************************************************************************)
(* Validation in the add_note and create_post forms.                       *)
(***************************************************************************)
MaxUploadRows == 2

\* str.startswith on sequences of characters.
StartsWith(str, prefix) ==
    Len(str) >= Len(prefix) /\ SubSeq(str, 1, Len(prefix)) = prefix

Http == <<"h", "t", "t", "p", ":", "/", "/">>
Https == <<"h", "t", "t", "p", "s", ":", "/", "/">>

\* What is typed into the URL input of a link note.
Links == {Https \o <<"a">>, Http \o <<"a">>, <<"f", "t", "p", ":", "/", "/", "a">>, <<>>}

\* The Photo uploader of a note: nothing, or one file with an image extension.
NoteUploads == {<<>>, <<Photo>>, <<ClipNamedJpg>>, <<PdfNamedJpg>>, <<HugePhoto>>}

\* The Photos / Videos uploader of a post.
PostUploads ==
    {<<>>, <<Photo>>, <<Clip>>, <<PdfNamedJpg>>, <<HugePhoto>>, <<Photo, PdfNamedJpg>>}

\* Add Note reaches save_media and save_media stores the file.
NoteFileSaved(type_choice, upload) ==
    type_choice = "photo" /\ upload # <<>> /\ Accepted(upload[1])

\* Add Note ends in st.error(...); st.stop().
NoteRejected(type_choice, content_text, upload) ==
    \/ /\ type_choice = "photo"
       /\ \/ upload = <<>>
          \/ ~Accepted(upload[1])
          \/ SniffMime(upload[1]) \notin IMG_MIMES
    \/ /\ type_choice = "link"
       /\ ~(StartsWith(content_text, Http) \/ StartsWith(content_text, Https))

\* The add_note form: a photo is handed to save_media before its type is compared
\* with IMG_MIMES; the INSERT follows the checks.
AddNoteRun(FAMILY, type_choice, content_text, upload) ==
    LET saved == NoteFileSaved(type_choice, upload)
        rejected == NoteRejected(type_choice, content_text, upload)
    IN  /\ uploads' = IF saved THEN uploads \cup Written(upload[1], seq["uuid"] + 1)
                      ELSE uploads
        /\ db' = IF rejected THEN db ELSE [db EXCEPT !["notes"] = @ \cup {NoteRow(FAMILY)}]
        /\ seq' = [seq EXCEPT !["uuid"] = IF saved THEN @ + 1 ELSE @,
                              !["notes"] = IF rejected THEN @ ELSE @ + 1]
        /\ UNCHANGED <<ADMIN_KEY, MAGIC_OK, schema, sessionVars>>

\* A post form whose uploads hold a file save_media refuses.
PostRejected(ups) == AcceptedPrefix(ups) < Len(ups)

\* The model stops at MaxUploadRows notes and posts and as many stored files.
CanInsertUpload ==
    seq["notes"] + seq["posts"] < MaxUploadRows /\ seq["uuid"] < MaxUploadRows

AddNoteForm ==
    /\ CanInsertUpload
    /\ \/ AddNoteRun("smith", "text", <<"m">>, <<>>)
       \/ \E url \in Links : AddNoteRun("smith", "link", url, <<>>)
       \/ \E upload \in NoteUploads : AddNoteRun("smith", "photo", <<>>, upload)

CreatePostForm ==
    /\ CanInsertUpload
    /\ \E ups \in PostUploads : CreatePostRun("smith", "ann", ups)

InitUpload ==
    /\ db = EmptyDb
    /\ seq = [t \in Counters |-> 0]
    /\ ADMIN_KEY = NULL
    /\ MAGIC_OK \in BOOLEAN
    /\ schema = Initialised
    /\ pc = NULL
    /\ snap = NULL
    /\ session_state = NULL
    /\ new_count = 0
    /\ counted = NULL
    /\ query_params = NULL
    /\ uploads = {}

NextUpload == AddNoteForm \/ CreatePostForm

SpecUpload == InitUpload /\ [][NextUpload]_vars

\* C18: a note or post form that validation rejects leaves every table and the upload
\* directory as they were: no row inserted, no file written, and a post with a rejected
\* upload leaves no post and no post_media row.
C18_RejectedLeavesStoreUnchanged ==
    [][(\/ \E ups \in PostUploads :
              PostRejected(ups) /\ CreatePostRun("smith", "ann", ups)
        \/ \E url \in Links :
              NoteRejected("link", url, <<>>) /\ AddNoteRun("smith", "link", url, <<>>)
        \/ \E upload \in NoteUploads :
              /\ NoteRejected("photo", <<>>, upload)
              /\ AddNoteRun("smith", "photo", <<>>, upload))
          => UNCHANGED <<db, uploads>>]_vars

(***************************************************************************)
(* Starting the app on hive.db: empty, already initialised, or made and    *)
(* filled by the older models.py / db.py version of the program.  pc is    *)
(* "stopped", "old" while the older version runs, "new" after a script run *)
(* whose init_schema returned, "crashed" after one that raised.            *)
(***************************************************************************)
MaxSchemaRows == 3

schemaRest ==
    <<ADMIN_KEY, MAGIC_OK, snap, session_state, new_count, counted, query_params, uploads>>

\* db.py init_db: SQLModel.metadata.create_all makes the tables that are missing.
init_db ==
    /\ pc = "stopped"
    /\ schema' = [schema EXCEPT !.cols =
                     [t \in Tables |-> IF t \in LegacyTables /\ @[t] = {}
                                       THEN LegacyColumns[t] ELSE @[t]]]
    /\ pc' = "old"
    /\ UNCHANGED <<db, seq, schemaRest>>

\* A row as the older version stores it; stores older still hold NULL in done and
\* content, the values init_schema backfills.
LegacyRow(t, v) ==
    CASE t = "notes" -> [id |-> NextId(t), content |-> "c", color |-> "#FFF176"]
      [] t = "lists" -> [id |-> NextId(t), title |-> "l"]
      [] t = "list_items" -> [id |-> NextId(t), list_id |-> 1, text |-> "i", done |-> v]
      [] t = "documents" -> [id |-> NextId(t), title |-> "d", content |-> v]

CanInsertSchema ==
    seq["notes"] + seq["lists"] + seq["list_items"] + seq["documents"] < MaxSchemaRows

LegacyInsert(t, v) ==
    /\ pc = "old"
    /\ CanInsertSchema
    /\ Insert(t, LegacyRow(t, v))
    /\ UNCHANGED <<pc, schema, schemaRest>>

\* A script run of streamlit_app.py: init_schema() and _init_addon_schema() come before
\* anything else, in autocommit, so what ran before an exception stays.
ScriptRun ==
    LET st == InitSchema([cols |-> schema.cols, idx |-> schema.idx, rows |-> db,
                          error |-> FALSE])
    IN  /\ schema' = [cols |-> st.cols, idx |-> st.idx]
        /\ db' = st.rows
        /\ pc' = IF st.error THEN "crashed" ELSE "new"
        /\ UNCHANGED <<seq, schemaRest>>

\* The running app stores a list or a document: a row with every column of the table.
AppRow(t) ==
    [c \in schema.cols[t] |-> IF c = "id" THEN NextId(t) ELSE IF c = "deleted_at" THEN NULL ELSE "v"]

AppInsert(t) ==
    /\ pc = "new"
    /\ CanInsertSchema
    /\ AppColumns(t) \subseteq schema.cols[t]
    /\ Insert(t, AppRow(t))
    /\ UNCHANGED <<pc, schema, schemaRest>>

InitStore ==
    /\ db = EmptyDb
    /\ seq = [t \in Counters |-> 0]
    /\ ADMIN_KEY = NULL
    /\ MAGIC_OK = FALSE
    /\ schema = [cols |-> NoStore.cols, idx |-> {}]
    /\ pc = "stopped"
    /\ snap = NULL
    /\ session_state = NULL
    /\ new_count = 0
    /\ counted = NULL
    /\ query_params = NULL
    /\ uploads = {}

NextSchema ==
    \/ init_db
    \/ \E t \in {"notes", "lists"} : LegacyInsert(t, NULL)
    \/ \E t \in {"list_items", "documents"}, v \in {NULL, "0"} : LegacyInsert(t, v)
    \/ ScriptRun
    \/ \E t \in {"lists", "documents"} : AppInsert(t)

SpecSchema == InitStore /\ [][NextSchema]_vars

\* A row of the store before the step is still there, with the values it had or, in a
\* backfilled column, the value that replaced NULL.
Kept(t, r) ==
    \E n \in db'[t] :
        \A c \in DOMAIN r : n[c] = r[c] \/ (r[c] = NULL /\ n[c] # NULL)

\* C19: a script run on any store (empty, initialised, or made by the older version)
\* returns from init_schema without error, keeps every row and every column, leaves
\* every column the application uses in place and no NULL in a backfilled column, and
\* changes nothing in a store it initialised before.
C19_InitSchemaIsSafe ==
    [][ScriptRun =>
          /\ pc' = "new"
          /\ \A t \in Tables :
                /\ \A r \in db[t] : Kept(t, r)
                /\ schema.cols[t] \subseteq schema'.cols[t]
                /\ AppColumns(t) \subseteq schema'.cols[t]
          /\ \A i \in DOMAIN Backfills :
                \A r \in db'[Backfills[i].t] : r[Backfills[i].col] # NULL
          /\ (pc = "new" => UNCHANGED <<db, schema>>)]_vars

(***************************************************************************)
(* The family feed and the RSVPs: parents, their child rows, the hard      *)
(* deletes, and the factory reset of the sidebar running next to them.     *)
(* A button can run with the id of a row that another session deleted      *)
(* after this run listed it.                                               *)
(***************************************************************************)
MaxFeedRows == 2

feedRest == <<seq, ADMIN_KEY, MAGIC_OK, schema, uploads, sessionVars>>

\* The like button: DELETE when the run found a like of the user, else INSERT OR IGNORE
\* INTO post_likes, which the foreign key refuses for a missing post.
ToggleLike(id, DISPLAY_NAME) ==
    LET mine == {r \in db["post_likes"] : r.post_id = id /\ r.author = DISPLAY_NAME}
    IN  /\ db' = IF mine # {} THEN [db EXCEPT !["post_likes"] = @ \ mine]
                 ELSE IF id \in Ids(db["posts"])
                      THEN [db EXCEPT !["post_likes"] =
                               @ \cup {[post_id |-> id, author |-> DISPLAY_NAME]}]
                      ELSE db
        /\ UNCHANGED feedRest

\* INSERT INTO post_comments(post_id, author, text)
CommentPost(id, DISPLAY_NAME) ==
    /\ db' = IF id \in Ids(db["posts"])
             THEN [db EXCEPT !["post_comments"] =
                      @ \cup {[id |-> NextId("post_comments"), post_id |-> id,
                               author |-> DISPLAY_NAME]}]
             ELSE db
    /\ seq' = IF id \in Ids(db["posts"]) THEN [seq EXCEPT !["post_comments"] = @ + 1]
              ELSE seq
    /\ UNCHANGED <<ADMIN_KEY, MAGIC_OK, schema, uploads, sessionVars>>

\* Mutant of Rsvp: a plain INSERT on a table without its primary key.
RsvpWithoutUpsert(id, DISPLAY_NAME, status) ==
    /\ db' = [db EXCEPT !["event_rsvps"] =
                 @ \cup {[event_id |-> id, username |-> DISPLAY_NAME, status |-> status]}]
    /\ UNCHANGED <<seq, ADMIN_KEY, MAGIC_OK, schema, uploads, sessionVars>>

\* INSERT INTO event_rsvps ... ON CONFLICT(event_id, username) DO UPDATE SET status
Rsvp(id, DISPLAY_NAME, status) ==
    /\ db' = IF id \in Ids(db["events"])
             THEN [db EXCEPT !["event_rsvps"] =
                      {r \in @ : ~(r.event_id = id /\ r.username = DISPLAY_NAME)}
                         \cup {[event_id |-> id, username |-> DISPLAY_NAME,
                                status |-> status]}]
             ELSE db
    /\ UNCHANGED feedRest

CanInsertFeed == seq["posts"] + seq["events"] + seq["post_comments"] < MaxFeedRows

FeedSessions ==
    \/ CanInsertFeed /\ \E ups \in {<<>>, <<Photo>>} : CreatePostRun("smith", "ann", ups)
    \/ CanInsertFeed /\ CreateEvent("smith", "e")
    \/ \E id \in 1 .. seq["posts"] : ToggleLike(id, "ann")
    \/ CanInsertFeed /\ \E id \in 1 .. seq["posts"] : CommentPost(id, "ann")
    \/ \E id \in 1 .. seq["events"], status \in {"going", "cant"} : Rsvp(id, "ann", status)
    \/ \E id \in 1 .. seq["posts"] : DeletePostButton("smith", id)
    \/ \E id \in 1 .. seq["events"] : DeleteEventButton("smith", id)

InitFeed ==
    /\ db = EmptyDb
    /\ seq = [t \in Counters |-> 0]
    /\ ADMIN_KEY = "hunter2"
    /\ MAGIC_OK = FALSE
    /\ schema = Initialised
    /\ pc = "run"
    /\ snap = "locked"
    /\ session_state = [k \in {PWD, CONFIRM} |-> ""]
    /\ new_count = 0
    /\ counted = NULL
    /\ query_params = NULL
    /\ uploads = {}

NextFeed ==
    \/ \E pwd \in {"hunter2", "wrong"} : TypePassword(pwd)
    \/ \E txt \in {"RESET", "reset"} : TypeConfirm(txt)
    \/ PressWipe
    \/ SidebarRun
    \/ WipeRun
    \/ PurgeStatement
    \/ Unlink
    \/ Vacuum
    \/ PurgeFails
    \/ FeedSessions

SpecFeed == InitFeed /\ [][NextFeed]_vars

\* Every child row references a row of its parent table.
NoOrphans ==
    \A t \in ChildTables : \A r \in db[t] : r[ForeignKey(t)] \in Ids(db[ParentOf(t)])

\* The child rows of table t that reference the parent row `id`.
ChildrenOf(d, t, id) == {r \in d[t] : r[ForeignKey(t)] = id}

\* C20: in every state no child row references a missing parent; a step that removes a
\* post or an event leaves none of its media, likes, comments or RSVPs; and the factory
\* reset has a DELETE for every child table, each of which leaves its table empty, so
\* that no comment, reaction, list item, media, like or RSVP that the reset found remains.
C20_NoOrphans ==
    /\ []NoOrphans
    /\ [][\A t \in ChildTables : \A id \in Ids(db[ParentOf(t)]) \ Ids(db'[ParentOf(t)]) :
             ChildrenOf(db', t, id) = {}]_vars
    /\ [][(pc \in ChildTables /\ pc' = AfterStatement(pc)) => db'[pc] = {}]_vars
    /\ \A t \in ChildTables : \E i \in DOMAIN PurgeOrder : PurgeOrder[i] = t

\* A post that had a media row was deleted with its button (the reset's confirmation
\* was never typed) and its children went with it.
C20_Witness ==
    /\ session_state[CONFIRM] = ""
    /\ seq["posts"] = 1 /\ seq["post_media"] = 1 /\ seq["post_comments"] = 1
    /\ db["posts"] = {}
    /\ db["post_media"] = {} /\ db["post_comments"] = {}

(***************************************************************************)
(* The RSVP buttons of an event: Going, Maybe, Can't and Clear my RSVP.    *)
(***************************************************************************)
MaxRsvpEvents == 2

RsvpStatuses == {"going", "maybe", "cant"}

\* DELETE FROM event_rsvps WHERE event_id=? AND username=?
ClearRsvp(id, DISPLAY_NAME) ==
    /\ db' = [db EXCEPT !["event_rsvps"] =
                 {r \in @ : ~(r.event_id = id /\ r.username = DISPLAY_NAME)}]
    /\ UNCHANGED feedRest

NextRsvp ==
    \/ seq["events"] < MaxRsvpEvents /\ CreateEvent("smith", "e")
    \/ \E id \in 1 .. seq["events"], u \in Users, status \in RsvpStatuses : Rsvp(id, u, status)
    \/ \E id \in 1 .. seq["events"], u \in Users : ClearRsvp(id, u)
    \/ \E id \in 1 .. seq["events"] : DeleteEventButton("smith", id)

SpecRsvp == Init /\ [][NextRsvp]_vars

RsvpsOf(d, id, u) == {r \in d["event_rsvps"] : r.event_id = id /\ r.username = u}

\* C21: an (event, username) pair has at most one RSVP row, with a status among going,
\* maybe and cant; a status button leaves the pressed status as the user's stored
\* status of the event, Clear leaves no row, and a press changes no other pair's row.
C21_OneRsvpLastPressWins ==
    /\ [](\A r \in db["event_rsvps"] :
             /\ r.status \in RsvpStatuses
             /\ Cardinality(RsvpsOf(db, r.event_id, r.username)) = 1)
    /\ [][\A id \in Ids(db["events"]), u \in Users :
             /\ \A status \in RsvpStatuses :
                   Rsvp(id, u, status)
                      => RsvpsOf(db', id, u)
                            = {[event_id |-> id, username |-> u, status |-> status]}
             /\ ClearRsvp(id, u) => RsvpsOf(db', id, u) = {}
             /\ (Rsvp(id, u, "going") \/ Rsvp(id, u, "maybe") \/ Rsvp(id, u, "cant")
                    \/ ClearRsvp(id, u))
                   => \A r \in db["event_rsvps"] :
                         (r.event_id # id \/ r.username # u) => r \in db'["event_rsvps"]]_vars

\* Two users hold different answers on event 1 and event 2 has none from ann.
C21_Witness ==
    /\ RsvpsOf(db, 1, "bob") = {[event_id |-> 1, username |-> "bob", status |-> "cant"]}
    /\ RsvpsOf(db, 1, "ann") = {[event_id |-> 1, username |-> "ann", status |-> "maybe"]}
    /\ RsvpsOf(db, 2, "ann") = {}
    /\ seq["events"] = 2

(***************************************************************************)
(* The quick delete of the chat tab with more own messages than the query  *)
(* lists.  Messages of another author or family come first.                *)
(***************************************************************************)
MaxMineRows == 11

OwnMessages(d) ==
    {m \in d["chat_messages"] :
        m.family = ChatFamily /\ m.room = "general" /\ m.author = ChatViewer}

NextMine ==
    \/ /\ seq["chat_messages"] = 0
       /\ \/ SendMessage(ChatFamily, "general", "bob")
          \/ SendMessage("public", "general", ChatViewer)
          \/ AddRoom(ChatFamily, "plans")
    \/ /\ seq["chat_messages"] < MaxMineRows
       /\ SendMessage(ChatFamily, "general", ChatViewer)
    \/ \E id \in Ids(MineListing(ChatFamily, "general", ChatViewer)) :
          DeleteMessage(ChatFamily, "general", ChatViewer, id)

SpecMine == InitChat /\ [][NextMine]_vars

\* C22: a quick delete by the viewer in a family and room removes one message, which
\* the viewer wrote in that family and room and which has fewer than ten newer messages
\* of the viewer in the room after it; every other message stays as it is.
C22_QuickDeleteFrame ==
    [][db'["chat_messages"] # db["chat_messages"] /\ seq' = seq
          => \E m \in OwnMessages(db) :
                /\ db'["chat_messages"] = db["chat_messages"] \ {m}
                /\ Cardinality({x \in OwnMessages(db) : x.id > m.id}) < 10]_vars

\* Ten own messages are left of eleven, the oldest among them, next to bob's message.
C22_Witness ==
    /\ seq["chat_messages"] = MaxMineRows
    /\ Cardinality(OwnMessages(db)) = MaxMineRows - 2
    /\ \E m \in db["chat_messages"] : m.id = 1 /\ m.author = "bob"
    /\ \E m \in OwnMessages(db) : m.id = 2

(***************************************************************************)
(* "Create Event from Reminder" in the expander of a reminder note, next   *)
(* to the calendar forms.  The notes of this specification are reminders.  *)
(***************************************************************************)
\* iso_utc(d, t) with a time (None becomes time(0, 0), written Midnight by the caller):
\* the aware datetime is written with its UTC offset.
IsoUtc(d, t) == IsoFormat(Combine(d, t)) \o <<"+", "0", "0", ":", "0", "0">>

\* INSERT INTO events(title, start_at, end_at, all_day, assignees, family) of the
\* promotion: start and end are both taken from the one date input.
PromotedRow(FAMILY, ev_d, ev_s, ev_e, all_day) ==
    [id |-> NextId("events"), family |-> FAMILY, origin |-> FAMILY, title |-> "r",
     start_at |-> IsoUtc(ev_d, IF all_day THEN Midnight ELSE ev_s),
     end_at |-> IsoUtc(ev_d, IF all_day THEN Midnight ELSE ev_e),
     all_day |-> IF all_day THEN 1 ELSE 0,
     in_sd |-> ev_d, in_ed |-> ev_d, via |-> "promote"]

\* The button of a listed reminder: the event is inserted, then the note gets the id
\* of the family's newest event as linked_event_id.
PromoteRun(id, ev_d, all_day) ==
    LET ev == PromotedRow(CalFamily, ev_d, [h |-> 9, mi |-> 0], [h |-> 10, mi |-> 0],
                          all_day)
    IN  /\ id \in Ids(NotesListing(CalFamily))
        /\ db' = [db EXCEPT !["events"] = @ \cup {ev},
                            !["notes"] = {IF n.id = id
                                             THEN ("linked_event_id" :> ev.id) @@ n ELSE n
                                          : n \in @}]
        /\ seq' = [seq EXCEPT !["events"] = @ + 1]
        /\ UNCHANGED calRest

NextPromote ==
    \/ NextCal
    \/ seq["notes"] < MaxCalRows /\ AddNote(CalFamily)
    \/ /\ seq["events"] < MaxCalRows
       /\ \E id \in Ids(db["notes"]), ev_d \in CalDates, all_day \in BOOLEAN :
             PromoteRun(id, ev_d, all_day)

SpecPromote == InitCal /\ [][NextPromote]_vars

\* C23: every all-day event, whichever form wrote it, starts at midnight of its first
\* day and ends at midnight of the day after its last day, so that its end is later
\* than its start and the editor shows an end date that is not before the start date.
C23_AllDaySpansWholeDays ==
    \A e \in db["events"] :
       e.all_day = 1
       => /\ FromIso(e.start_at) = Combine(e.in_sd, Midnight)
          /\ FromIso(e.end_at) = Combine(NextDay(e.in_ed), Midnight)
          /\ DateLess(DateOf(FromIso(e.start_at)), DateOf(FromIso(e.end_at)))
          /\ DateLeq(EditForm(e).sd, EditForm(e).ed)

(***************************************************************************)
(* The create_post form statement by statement, in two sessions of one     *)
(* family.  pc and snap hold, per session, the position of its run and     *)
(* the post id the run works with; post_media rows carry the history field *)
(* `own`, the id of the post the inserting run itself inserted.            *)
(***************************************************************************)
MaxPostRuns == 3

Sessions == {"ann", "bob"}

postRest ==
    <<ADMIN_KEY, MAGIC_OK, schema, session_state, new_count, counted, query_params>>

\* exec1("INSERT INTO posts(family, album_id, author, caption) VALUES(?,?,?,?)")
InsertPost(s) ==
    /\ pc[s] = "idle"
    /\ seq["posts"] < MaxPostRuns
    /\ Insert("posts", PostRow("smith", s))
    /\ pc' = [pc EXCEPT ![s] = "lookup"]
    /\ snap' = [snap EXCEPT ![s] = [own |-> NextId("posts"), post_id |-> 0]]
    /\ UNCHANGED <<uploads, postRest>>

\* post_id = q("SELECT id FROM posts WHERE family=? ORDER BY id DESC LIMIT 1")[0]["id"]
LookupPostId(s) ==
    /\ pc[s] = "lookup"
    /\ pc' = [pc EXCEPT ![s] = "media"]
    /\ snap' = [snap EXCEPT ![s].post_id = LastId(PostsListing("smith"))]
    /\ UNCHANGED <<db, seq, uploads, postRest>>

\* save_media(up) and INSERT INTO post_media(post_id, ...) for the one upload, a photo.
InsertMedia(s) ==
    /\ pc[s] = "media"
    /\ db' = [db EXCEPT !["post_media"] =
                 @ \cup {[own |-> snap[s].own] @@ MediaRow(snap[s].post_id, Photo, 1)}]
    /\ seq' = [seq EXCEPT !["post_media"] = @ + 1, !["uuid"] = @ + 1]
    /\ uploads' = uploads \cup Written(Photo, seq["uuid"] + 1)
    /\ pc' = [pc EXCEPT ![s] = "idle"]
    /\ UNCHANGED <<snap, postRest>>

InitPost ==
    /\ db = EmptyDb
    /\ seq = [t \in Counters |-> 0]
    /\ ADMIN_KEY = NULL
    /\ MAGIC_OK \in BOOLEAN
    /\ schema = Initialised
    /\ pc = [s \in Sessions |-> "idle"]
    /\ snap = [s \in Sessions |-> [own |-> 0, post_id |-> 0]]
    /\ session_state = NULL
    /\ new_count = 0
    /\ counted = NULL
    /\ query_params = NULL
    /\ uploads = {}

NextPost ==
    \/ \E s \in Sessions : InsertPost(s)
    \/ \E s \in Sessions : LookupPostId(s)
    \/ \E s \in Sessions : InsertMedia(s)

SpecPost == InitPost /\ [][NextPost]_vars

\* C24: every post_media row references the post that the run which wrote it inserted,
\* however the runs of the sessions of one family interleave.
C24_MediaOfOwnPost == \A m \in db["post_media"] : m.post_id = m.own

(***************************************************************************)
(* Result order of the listings.  An ORDER BY fixes the order of two rows  *)
(* only when their keys differ; rows with equal keys come in an order the  *)
(* query does not determine, so a query has a set of possible results.     *)
(***************************************************************************)
MaxOrderRows == 2

\* Code points of the characters of a stored timestamp.
Code(c) ==
    CASE c = "+" -> 43 [] c = "-" -> 45 [] c = ":" -> 58 [] c = "T" -> 84
      [] OTHER -> 48 + DigitVal(c)

RECURSIVE TextLess(_, _)
\* a < b for TEXT values (BINARY collation).
TextLess(a, b) ==
    IF b = <<>> THEN FALSE
    ELSE IF a = <<>> THEN TRUE
    ELSE IF Head(a) # Head(b) THEN Code(Head(a)) < Code(Head(b))
    ELSE TextLess(Tail(a), Tail(b))

\* The sequences that hold every row of S once.
Arrangements(S) ==
    LET n == Cardinality(S)
    IN  {s \in [1 .. n -> S] : \A i, j \in 1 .. n : s[i] = s[j] => i = j}

\* SELECT * FROM events WHERE family=? ORDER BY start_at ASC
EventOrders(FAMILY) ==
    {s \in Arrangements(EventsListing(FAMILY)) :
        \A i, j \in 1 .. Len(s) : i < j => ~TextLess(s[j].start_at, s[i].start_at)}

\* SELECT * FROM notes WHERE family=? AND deleted_at IS NULL ORDER BY order_index DESC, id DESC
NoteOrders(FAMILY) ==
    {s \in Arrangements(NotesListing(FAMILY)) :
        \A i, j \in 1 .. Len(s) : i < j => ~Before(s[j], s[i])}

\* SELECT ... FROM lists WHERE family=? AND (deleted_at IS NULL) ORDER BY id DESC LIMIT 100
ListOrders(FAMILY) ==
    {s \in Arrangements(ListsListing(FAMILY)) :
        \A i, j \in 1 .. Len(s) : i < j => s[i].id > s[j].id}

NextOrder ==
    \/ \E title \in EventTitles, w \in TypedForms :
          /\ seq["events"] < MaxOrderRows
          /\ CreateEventRun(title, w)
    \/ \E id \in Ids(db["events"]) : DeleteEventRun(id)
    \/ seq["notes"] < MaxOrderRows /\ AddNote(CalFamily)
    \/ \E now \in Times : \E id \in Ids(NotesListing(CalFamily)) : DeleteNote(CalFamily, id, now)
    \/ seq["lists"] < MaxOrderRows /\ \E u \in Users : CreateList(CalFamily, u, "normal")

SpecOrder == InitCal /\ [][NextOrder]_vars

\* C25: for the contents of the store, the note, list and event listing of a family each
\* have exactly one possible result order.
C25_OneResultOrder ==
    /\ Cardinality(NoteOrders(CalFamily)) = 1
    /\ Cardinality(ListOrders(CalFamily)) = 1
    /\ Cardinality(EventOrders(CalFamily)) = 1

\* C26: a newly created note gets an order_index greater than every order_index assigned
\* before in its family, soft-deleted notes included, so no value is used twice.
C26_OrderIndexNeverReused ==
    [][\A f \in Families :
          AddNote(f)
          => \E r \in db'["notes"] \ db["notes"] :
                \A n \in FamilyNotes(f) : n.order_index < r.order_index]_vars

\* C27: in the week view the window starts on a Monday, ends six days later on a Sunday
\* and contains the reference date; in the day view it is the reference date alone.
C27_WeekAndDayWindow ==
    LET ref == session_state.fc_ref
    IN  /\ session_state.fc_view = "timeGridWeek"
           => /\ Weekday(snap.d0) = 0
              /\ ToOrdinal(snap.d1) = ToOrdinal(snap.d0) + 6
              /\ Weekday(snap.d1) = 6
              /\ ToOrdinal(snap.d0) <= ToOrdinal(ref) /\ ToOrdinal(ref) <= ToOrdinal(snap.d1)
        /\ session_state.fc_view = "timeGridDay" => snap.d0 = ref /\ snap.d1 = ref

\* The week view on Sunday 1 January 2023: the week began in the year before.
C27_Witness ==
    /\ session_state.fc_view = "timeGridWeek"
    /\ session_state.fc_ref = MkDate(2023, 1, 1)
    /\ snap = [d0 |-> MkDate(2022, 12, 26), d1 |-> MkDate(2023, 1, 1)]

(***************************************************************************)
(* Chat cursors of one viewer session that changes its family in the       *)
(* profile and its room in the Room box: the family and the room name are  *)
(* free text (Save Profile, Create room).                                  *)
(***************************************************************************)
MaxCursorRows == 2

CursorFamilies == {"a", "a_b"}

CursorRooms == {"general", "c", "b_c"}

\* A complete run of the chat tab as family FAMILY with `room` selected.
RenderPair(FAMILY, room) ==
    /\ room \in ExistingRooms(FAMILY)
    /\ new_count' = Cardinality(NewFromOthers(ChatListing(FAMILY, room),
                                              PrevSeen(StateKey(FAMILY, room)), ChatViewer))
    /\ session_state' = (StateKey(FAMILY, room) :> LastId(ChatListing(FAMILY, room)))
                           @@ session_state
    /\ UNCHANGED <<db, seq, counted>> /\ UNCHANGED chatRest

NextCursor ==
    \/ seq["chat_messages"] < MaxCursorRows
          /\ \E f \in CursorFamilies, new_room \in CursorRooms : AddRoom(f, new_room)
    \/ seq["chat_messages"] < MaxCursorRows
          /\ \E f \in CursorFamilies, room \in CursorRooms : SendMessage(f, room, "bob")
    \/ \E f \in CursorFamilies, room \in CursorRooms : RenderPair(f, room)

SpecCursor == InitChat /\ [][NextCursor]_vars

\* C28: a run of the chat tab for one (family, room) pair leaves the cursor of every
\* other (family, room) pair as it was.
C28_CursorsIndependent ==
    [][\A f, g \in CursorFamilies : \A r, s \in CursorRooms :
          (<<f, r>> # <<g, s>> /\ RenderPair(f, r))
          => PrevSeen(StateKey(g, s))' = PrevSeen(StateKey(g, s))]_vars

\* C29: under any interleaving of the viewer sessions, a wishlist item whose purchased_by
\* is set has claimed_by equal to purchased_by.
C29_PurchasedByItsClaimer ==
    \A it \in db["list_items"] :
       (IsWishlist(ListOf(it)) /\ it.purchased_by # NULL) => it.claimed_by = it.purchased_by

(***************************************************************************)
(* Corkboard pages.  session_state holds notes_page and the Due filter of  *)
(* the sidebar; snap is the list of notes the latest run showed.  A note's *)
(* due_at is NULL or "past", a time before the clock of every run.  The    *)
(* text, assignee and tag filters are part of the query's WHERE clause and *)
(* are left empty.                                                         *)
(***************************************************************************)
MaxPageRows == 26

MaxDueRows == 1

DueFilters == {"All", "Overdue"}

DueInputs == {NULL, "past"}

\* include_due(n)
IncludeDue(n, f_due) ==
    IF f_due = "All" THEN TRUE
    ELSE IF n.due_at = NULL THEN FALSE
    ELSE IF f_due = "Overdue" THEN n.due_at = "past"
    ELSE TRUE

\* [n for n in notes if include_due(n)]
SelectDue(notes, f_due) == SelectSeq(notes, LAMBDA n : IncludeDue(n, f_due))

\* The notes a run shows on `page`: the page query, then the due filter.
ShownPage(page, f_due) == SelectDue(NotesPage(CalFamily, page), f_due)

\* The board of the run for the stored page and the selected filter.
Board == ShownPage(session_state.notes_page, session_state.f_due)

pageRest == <<ADMIN_KEY, pc, new_count, counted, query_params, uploads, MAGIC_OK, schema>>

\* add_note with the due date left empty or set in the past; the run that follows shows
\* the board.
AddDueNote(due_at) ==
    /\ seq["notes"] < MaxPageRows
    /\ due_at # NULL => Cardinality({n \in db["notes"] : n.due_at # NULL}) < MaxDueRows
    /\ Insert("notes", [due_at |-> due_at] @@ NoteRow(CalFamily))
    /\ UNCHANGED session_state /\ UNCHANGED pageRest
    /\ snap' = Board'

\* The Due filter box of the sidebar.
ChooseDue(f_due) ==
    /\ session_state' = [session_state EXCEPT !.f_due = f_due]
    /\ UNCHANGED <<db, seq>> /\ UNCHANGED pageRest
    /\ snap' = Board'

\* "Next": disabled when the run shows fewer than PAGE_SIZE notes.
NextPage ==
    /\ ~(Len(snap) < PAGE_SIZE)
    /\ session_state' = [session_state EXCEPT !.notes_page = @ + 1]
    /\ UNCHANGED <<db, seq>> /\ UNCHANGED pageRest
    /\ snap' = Board'

\* "Prev": disabled on page 0.
PrevPage ==
    /\ session_state.notes_page # 0
    /\ session_state' = [session_state EXCEPT !.notes_page = Max({0, @ - 1})]
    /\ UNCHANGED <<db, seq>> /\ UNCHANGED pageRest
    /\ snap' = Board'

InitPages ==
    /\ db = EmptyDb
    /\ seq = [t \in Counters |-> 0]
    /\ ADMIN_KEY = NULL
    /\ pc = NULL
    /\ snap = <<>>
    /\ session_state = [notes_page |-> 0, f_due |-> "All"]
    /\ new_count = 0
    /\ counted = NULL
    /\ query_params = NULL
    /\ uploads = {}
    /\ MAGIC_OK = FALSE
    /\ schema = Initialised

NextPages ==
    \/ \E due_at \in DueInputs : AddDueNote(due_at)
    \/ \E f_due \in DueFilters : ChooseDue(f_due)
    \/ NextPage
    \/ PrevPage

SpecPages == InitPages /\ [][NextPages]_vars

\* The notes on the pages that pressing Next reaches from page 0: page k is reached
\* when every page before it has its Next button enabled.
ReachableNotes(f_due) ==
    LET last == Cardinality(NotesListing(CalFamily)) \div PAGE_SIZE
        pages == [k \in 0 .. last |-> ShownPage(k, f_due)]
        reached == {k \in 0 .. last : \A j \in 0 .. k - 1 : ~(Len(pages[j]) < PAGE_SIZE)}
    IN  UNION {{pages[k][i] : i \in 1 .. Len(pages[k])} : k \in reached}

\* C30: every alive note of the family that passes the active filters is shown on a page
\* that is reached from page 0 by pressing Next.
C30_MatchingNotesReachable ==
    {n \in NotesListing(CalFamily) : IncludeDue(n, session_state.f_due)}
       \subseteq ReachableNotes(session_state.f_due)
====
